---- MODULE Spec2Model ----
(***************************************************************************)
(* A model of the real-time core of altur-vocode:                          *)
(*   - the transcript -> chat-message projector and its context-window     *)
(*     truncation loop           (streaming/agent/openai_utils.py)         *)
(*   - the rate-limited output device consumer loop                        *)
(*                (output_device/rate_limit_interruptions_output_device.py)*)
(*   - the external-action runner (action/execute_external_action.py)      *)
(*     and the parameter formatter (action/parameter_formatters.py)        *)
(*   - the audio cache           (synthesizer/audio_cache.py)              *)
(* Each component has its own specification (SpecProj, SpecDev, SpecAct,   *)
(* SpecCache); the variables of the other components stay at their initial *)
(* values.                                                                 *)
(***************************************************************************)
EXTENDS Integers, Sequences, FiniteSets, TLC

VARIABLES
    \* ---- projector ----
    event_logs,       \* Transcript.event_logs, append-only
    chat_messages,    \* the local list of format_openai_chat_messages_from_transcript
    ctx_limit,        \* get_chat_gpt_max_tokens(model) - LLM_AGENT_DEFAULT_MAX_TOKENS - 50
    proj_pc,          \* "idle" | "projected" | "trunc" | "returned" | "raised"
    merged_logs,       \* the local merged_event_logs of format_openai_chat_messages_from_transcript
    model_name,       \* the argument model_name of format_openai_chat_messages_from_transcript
    \* ---- output device ----
    now,              \* time.time(), in ticks
    chunks,           \* every InterruptibleEvent[AudioChunk] created, in enqueue order
    input_queue,      \* self._input_queue: indexes into chunks
    dev_pc,           \* where _run_loop stands: "get" | "play" | "sleep" | "returned" | "raised"
    start_time,       \* the local start_time of _run_loop
    sleep_until,      \* the time the pending asyncio.sleep ends
    item,             \* self.interruptible_event: an index into chunks, 0 before the first
    is_processing,    \* self._is_processing
    sink_log,         \* the calls of play(): <<"start" | "end", chunk>>
    on_play_log,      \* the on_play hooks fired: [chunk, at]
    \* ---- external action ----
    act_pc,           \* where run stands: "idle" | "wait" | "request" | "returned" | "raised"
    act_cfg,          \* the action config and the parsed input_schema
    act_payload,      \* action_input.params.payload
    act_parts,        \* the locals path_params, query_params, body_params
    act_request,      \* the request handed to send_request: [sent, url, body]
    act_calls,        \* the calls run has made, in order
    act_output,       \* the ActionOutput run returned: [returned, success, result]
    act_task,         \* the fire-and-forget task: "none" | "pending" | "ok" | "failed"
    act_response,     \* what send_external_action_request returned: [received, success, result]
    \* ---- audio cache ----
    cache_disabled,   \* AudioCache.disabled
    cache_time,       \* time.time(), in ticks
    redis_data,       \* the data keys: audio key -> [present, bytes, ttl]
    redis_size,       \* the size counters: "audio_cache:size:{lang}" -> int
    redis_info,       \* the metadata hashes, per audio key: [last_access, popularity, size]
    cache_pc,         \* per caller: where its get_audio / set_audio stands
    cache_local,      \* per caller: the arguments and locals of its call
    cache_calls,      \* the number of calls made so far
    \* ---- token stream ----
    tok_pc,           \* openai_get_tokens: "running" | "done"
    tok_tool_calls,   \* the local tool_calls: index -> [id, name, arguments, name_sent]
    tok_in,           \* the chunks the generator has taken from gen, in order
    tok_out,          \* what the generator has yielded, in order
    \* ---- wait_for_drain ----
    drain_pc,         \* "idle" | "check" | "sleep" | "returned"
    drain_start,      \* the local start_time of wait_for_drain
    drain_timeout,    \* the argument timeout, in ticks
    drain_result,     \* "none" before the return, then "True" | "False"
    \* ---- apply_parameter_formats ----
    fmt_pc,           \* "idle" | "returned"
    fmt_heap,         \* the dict objects: reference -> dict
    fmt_args,         \* the call: [payload (as it was at the call), param_formats, timezone]
    fmt_result,       \* the reference apply_parameter_formats returned, 0 before
    \* ---- AlturOutputDevice.play ----
    alt_pc,           \* "idle" | "loop" | "returned"
    alt_chunk,        \* the argument chunk: a sequence of bytes
    alt_i,            \* the loop variable i of range(0, len(chunk), ALTUR_CHUNK_SIZE)
    alt_ws,           \* self.ws.application_state: "CONNECTED" | "DISCONNECTED"
    alt_sent,         \* the texts given to ws.send_text, in order: [call_id, payload]
    \* ---- inject_parsed_dates, for one match of search_dates ----
    date_pc,          \* "idle" | "matched" | "direction" | "parsed"
    date_text,        \* the argument text, a sequence of characters
    date_matched,     \* matched_text of the result of search_dates
    date_languages,   \* the argument languages, a list (empty for None)
    date_direction,   \* what _get_temporal_direction returned
    date_prefer,      \* PREFER_DATES_FROM of the re-parse, None before it
    \* ---- AlturPhoneConversation.attach_ws_and_start ----
    phone_pc,         \* "loop" | "receive" | "terminate" | "close" | "returned" | "raised"
    phone_active,     \* self.is_active()
    phone_disconnected, \* the local disconnected
    phone_peer_gone,  \* the peer has sent websocket.disconnect
    phone_terminated, \* how many times self.terminate() was called
    phone_closed,     \* how many times ws.close() was called
    phone_audio,      \* the chunks given to receive_audio, in order
    phone_errors,     \* the codes logged as abnormal disconnects
    \* ---- inject_parsed_dates, the injection ----
    inj_pc,           \* "idle" | "found" | "inject" | "returned"
    inj_words,        \* the words the argument text is made of
    inj_text,         \* the argument text, a sequence of characters
    inj_languages,    \* the argument languages, a list (empty for None)
    inj_results,      \* what search_dates returned: [matched_text, date]
    inj_valid,        \* valid_results: [matched_text, date, pos]
    inj_k,            \* how many entries of valid_results the second loop has done
    inj_enriched      \* enriched_text

proj_vars == <<event_logs, chat_messages, ctx_limit, proj_pc, merged_logs,
               model_name>>

dev_vars == <<now, chunks, input_queue, dev_pc, start_time, sleep_until, item,
              is_processing, sink_log, on_play_log>>

act_vars == <<act_pc, act_cfg, act_payload, act_parts, act_request, act_calls,
              act_output, act_task, act_response>>

cache_vars == <<cache_disabled, cache_time, redis_data, redis_size, redis_info,
                cache_pc, cache_local, cache_calls>>

tok_vars == <<tok_pc, tok_tool_calls, tok_in, tok_out>>

drain_vars == <<drain_pc, drain_start, drain_timeout, drain_result>>

fmt_vars == <<fmt_pc, fmt_heap, fmt_args, fmt_result>>

alt_vars == <<alt_pc, alt_chunk, alt_i, alt_ws, alt_sent>>

date_vars == <<date_pc, date_text, date_matched, date_languages, date_direction,
               date_prefer>>

phone_vars == <<phone_pc, phone_active, phone_disconnected, phone_peer_gone,
                phone_terminated, phone_closed, phone_audio, phone_errors>>

inj_vars == <<inj_pc, inj_words, inj_text, inj_languages, inj_results, inj_valid,
              inj_k, inj_enriched>>

vars == <<proj_vars, dev_vars, act_vars, cache_vars, tok_vars, drain_vars, fmt_vars,
          alt_vars, date_vars, phone_vars, inj_vars>>

\* What the actions of one component leave alone.
not_proj_vars == <<dev_vars, act_vars, cache_vars, tok_vars, drain_vars, fmt_vars, alt_vars,
    date_vars, phone_vars, inj_vars>>
not_dev_vars == <<proj_vars, act_vars, cache_vars, tok_vars, drain_vars, fmt_vars, alt_vars,
    date_vars, phone_vars, inj_vars>>
not_act_vars == <<proj_vars, dev_vars, cache_vars, tok_vars, drain_vars, fmt_vars, alt_vars,
    date_vars, phone_vars, inj_vars>>
not_cache_vars == <<proj_vars, dev_vars, act_vars, tok_vars, drain_vars, fmt_vars, alt_vars,
    date_vars, phone_vars, inj_vars>>
not_tok_vars == <<proj_vars, dev_vars, act_vars, cache_vars, drain_vars, fmt_vars, alt_vars,
    date_vars, phone_vars, inj_vars>>
not_drain_vars == <<proj_vars, dev_vars, act_vars, cache_vars, tok_vars, fmt_vars, alt_vars,
    date_vars, phone_vars, inj_vars>>
not_fmt_vars == <<proj_vars, dev_vars, act_vars, cache_vars, tok_vars, drain_vars,
                  alt_vars, date_vars, phone_vars, inj_vars>>
not_alt_vars == <<proj_vars, dev_vars, act_vars, cache_vars, tok_vars, drain_vars,
                  fmt_vars, date_vars, phone_vars, inj_vars>>
not_date_vars == <<proj_vars, dev_vars, act_vars, cache_vars, tok_vars, drain_vars,
                   fmt_vars, alt_vars, phone_vars, inj_vars>>
not_phone_vars == <<proj_vars, dev_vars, act_vars, cache_vars, tok_vars, drain_vars,
                    fmt_vars, alt_vars, date_vars, inj_vars>>
not_inj_vars == <<proj_vars, dev_vars, act_vars, cache_vars, tok_vars, drain_vars,
                  fmt_vars, alt_vars, date_vars, phone_vars>>

(***************************************************************************)
(* Bounds                                                                  *)
(***************************************************************************)
MaxLog == 4
SmallLimit == 14
LargeLimit == 19
MaxChunks == 3
MaxDuration == 2
MaxTime == 2
MaxAudioLen == 2
MaxCacheTime == 1
MaxCalls == 2
MaxStream == 3
MaxDrainChunks == 1
MaxTruncLog == 3
MaxLookLog == 6
MaxPlayBytes == 4
ALTUR_CHUNK_SIZE == 2
MaxWordsBefore == 2
MaxWordsAfter == 1

(***************************************************************************)
(* PROJECTOR: data                                                         *)
(***************************************************************************)
\* A text is a sequence of one-character strings; encoding.encode is
\* abstracted to one token per character.
Texts == {<< >>, <<"a">>}

ToolCallIds == {"T1", "T2"}

\* tool_call_id "" is the falsy (None / empty) id.
NoId == ""

Msg(sender, text) ==
    [type |-> "Message", sender |-> sender, text |-> text,
     tool_call_id |-> NoId, phrase |-> FALSE]

AStart(id, phrase) ==
    [type |-> "ActionStart", sender |-> "ACTION_WORKER", text |-> <<"{", "}">>,
     tool_call_id |-> id, phrase |-> phrase]

AFinish(id, phrase) ==
    [type |-> "ActionFinish", sender |-> "ACTION_WORKER", text |-> <<"r">>,
     tool_call_id |-> id, phrase |-> phrase]

Conf ==
    [type |-> "ConferenceEvent", sender |-> "CONFERENCE", text |-> <<"c">>,
     tool_call_id |-> NoId, phrase |-> FALSE]

\* The entries a transcript is built from.
EventLogs ==
    {Msg("HUMAN", <<"a">>)} \cup {Msg("BOT", t) : t \in Texts}
    \cup {AStart(id, FALSE) : id \in ToolCallIds}
    \cup {AStart("T1", TRUE), AFinish("T1", TRUE)}
    \cup {AFinish(id, FALSE) : id \in ToolCallIds}
    \cup {Conf}

\* The entries of the transcripts that are long enough for the look-ahead
\* window to end inside them; the action "T2" never finishes here.
LookEventLogs ==
    {Msg("HUMAN", <<"a">>), Msg("BOT", <<"a">>), AStart("T1", TRUE)}
    \cup {AStart(id, FALSE) : id \in ToolCallIds}
    \cup {AFinish("T1", FALSE)}

prompt_preamble == <<"p">>

\* A chat message.  has_content = FALSE is "content": None; tool_calls = << >>
\* is a message without the "tool_calls" key.
ChatMessage(role, has_content, content, tool_calls, tool_call_id) ==
    [role |-> role, has_content |-> has_content, content |-> content,
     tool_calls |-> tool_calls, tool_call_id |-> tool_call_id]

ToolCall(action) ==
    [id |-> action.tool_call_id, type |-> "function", arguments |-> action.text]

(***************************************************************************)
(* PROJECTOR: get_openai_chat_messages_from_transcript                     *)
(***************************************************************************)
\* Mutant of is_phrase_based_action_event_log: no entry counts as
\* phrase-triggered.
is_phrase_based_never(e) == FALSE

is_phrase_based_action_event_log(e) ==
    e.type \in {"ActionStart", "ActionFinish"} /\ e.phrase

\* First pass: tool_call_id -> index of the (last) non-phrase ActionFinish.
tool_call_to_response(logs) ==
    LET ids == {logs[k].tool_call_id : k \in
                  {k \in 1..Len(logs) :
                      /\ logs[k].type = "ActionFinish"
                      /\ ~is_phrase_based_action_event_log(logs[k])
                      /\ logs[k].tool_call_id # NoId}}
        last(id) == CHOOSE k \in 1..Len(logs) :
                      /\ logs[k].type = "ActionFinish"
                      /\ ~is_phrase_based_action_event_log(logs[k])
                      /\ logs[k].tool_call_id = id
                      /\ \A m \in (k+1)..Len(logs) :
                            ~(/\ logs[m].type = "ActionFinish"
                              /\ ~is_phrase_based_action_event_log(logs[m])
                              /\ logs[m].tool_call_id = id)
    IN  [id \in ids |-> last(id)]

\* Mutant of LookAhead: the processed set is not consulted.
RECURSIVE LookAheadNoProcessed(_, _, _, _, _)
LookAheadNoProcessed(logs, i, j, responses, processed) ==
    IF ~(j <= Len(logs) /\ j < i + 5) THEN 0
    ELSE LET next_event == logs[j] IN
         IF next_event.type = "ActionStart"
               /\ ~is_phrase_based_action_event_log(next_event)
         THEN IF /\ next_event.tool_call_id # NoId
                 /\ next_event.tool_call_id \in DOMAIN responses
              THEN j
              ELSE LookAheadNoProcessed(logs, i, j + 1, responses, processed)
         ELSE IF next_event.type = "Message" /\ next_event.sender = "HUMAN"
         THEN 0
         ELSE LookAheadNoProcessed(logs, i, j + 1, responses, processed)

\* Mutant of LookAhead: the window is one entry longer.
RECURSIVE LookAheadWider(_, _, _, _, _)
LookAheadWider(logs, i, j, responses, processed) ==
    IF ~(j <= Len(logs) /\ j < i + 6) THEN 0
    ELSE LET next_event == logs[j] IN
         IF next_event.type = "ActionStart"
               /\ ~is_phrase_based_action_event_log(next_event)
         THEN IF /\ next_event.tool_call_id # NoId
                 /\ next_event.tool_call_id \in DOMAIN responses
                 /\ next_event.tool_call_id \notin processed
              THEN j
              ELSE LookAheadWider(logs, i, j + 1, responses, processed)
         ELSE IF next_event.type = "Message" /\ next_event.sender = "HUMAN"
         THEN 0
         ELSE LookAheadWider(logs, i, j + 1, responses, processed)

\* The look-ahead of a BOT message at index i (1-based): the index of the
\* associated ActionStart, or 0.
RECURSIVE LookAhead(_, _, _, _, _)
LookAhead(logs, i, j, responses, processed) ==
    IF ~(j <= Len(logs) /\ j < i + 5) THEN 0
    ELSE LET next_event == logs[j] IN
         IF next_event.type = "ActionStart"
               /\ ~is_phrase_based_action_event_log(next_event)
         THEN IF /\ next_event.tool_call_id # NoId
                 /\ next_event.tool_call_id \in DOMAIN responses
                 /\ next_event.tool_call_id \notin processed
              THEN j
              ELSE LookAhead(logs, i, j + 1, responses, processed)
         ELSE IF next_event.type = "Message" /\ next_event.sender = "HUMAN"
         THEN 0
         ELSE LookAhead(logs, i, j + 1, responses, processed)

\* str.strip() on a text: is anything left?
RECURSIVE StripIsEmpty(_)
StripIsEmpty(t) ==
    IF t = << >> THEN TRUE
    ELSE IF Head(t) = " " THEN StripIsEmpty(Tail(t)) ELSE FALSE

\* Mutant of ToolMessage: the tool message carries the arguments of the call.
ToolMessageOfStart(logs, responses, id) ==
    ChatMessage("tool", TRUE, <<"{", "}">>, << >>, id)

ToolMessage(logs, responses, id) ==
    ChatMessage("tool", TRUE, logs[responses[id]].text, << >>, id)

\* Second pass, from index i with the processed set and the messages so far.
RECURSIVE SecondPass(_, _, _, _, _)
SecondPass(logs, i, responses, processed, out) ==
    IF i > Len(logs) THEN out
    ELSE LET e == logs[i] IN
      CASE e.type = "Message" ->
             IF StripIsEmpty(e.text)
             THEN SecondPass(logs, i + 1, responses, processed, out)
             ELSE IF e.sender = "BOT"
             THEN LET j == LookAhead(logs, i, i + 1, responses, processed) IN
                  IF j # 0
                  THEN SecondPass(logs, i + 1, responses,
                         processed \cup {logs[j].tool_call_id},
                         out \o << ChatMessage("assistant", TRUE, e.text,
                                               <<ToolCall(logs[j])>>, NoId),
                                   ToolMessage(logs, responses, logs[j].tool_call_id) >>)
                  ELSE SecondPass(logs, i + 1, responses, processed,
                         Append(out, ChatMessage("assistant", TRUE, e.text, << >>, NoId)))
             ELSE SecondPass(logs, i + 1, responses, processed,
                         Append(out, ChatMessage("user", TRUE, e.text, << >>, NoId)))
        [] e.type = "ActionStart" ->
             IF \/ is_phrase_based_action_event_log(e)
                \/ e.tool_call_id = NoId
                \/ e.tool_call_id \in processed
             THEN SecondPass(logs, i + 1, responses, processed, out)
             ELSE IF e.tool_call_id \in DOMAIN responses
             THEN SecondPass(logs, i + 1, responses,
                         processed \cup {e.tool_call_id},
                         out \o << ChatMessage("assistant", FALSE, << >>,
                                               <<ToolCall(e)>>, NoId),
                                   ToolMessage(logs, responses, e.tool_call_id) >>)
             ELSE SecondPass(logs, i + 1, responses, processed, out)
        [] e.type = "ConferenceEvent" ->
             SecondPass(logs, i + 1, responses, processed,
                         Append(out, ChatMessage("user", TRUE, e.text, << >>, NoId)))
        [] OTHER -> SecondPass(logs, i + 1, responses, processed, out)

get_openai_chat_messages_from_transcript(merged_event_logs, preamble) ==
    SecondPass(merged_event_logs, 1, tool_call_to_response(merged_event_logs), {},
               << ChatMessage("system", TRUE, preamble, << >>, NoId) >>)

(***************************************************************************)
(* PROJECTOR: merge_event_logs                                             *)
(***************************************************************************)
IsBot(e) == e.type = "Message" /\ e.sender = "BOT"

\* Mutant of merge_event_logs: nothing is merged.
merge_event_logs_identity(logs) == logs

\* " ".join(texts)
RECURSIVE JoinSpace(_)
JoinSpace(texts) ==
    IF texts = << >> THEN << >>
    ELSE IF Len(texts) = 1 THEN texts[1]
    ELSE texts[1] \o <<" ">> \o JoinSpace(Tail(texts))

RECURSIVE MergeFrom(_, _, _)
MergeFrom(logs, idx, new_event_logs) ==
    IF idx > Len(logs) THEN new_event_logs
    ELSE IF IsBot(logs[idx])
    THEN LET stop == IF \E k \in idx..Len(logs) : ~IsBot(logs[k])
                     THEN CHOOSE k \in idx..Len(logs) :
                            ~IsBot(logs[k]) /\ \A m \in idx..(k-1) : IsBot(logs[m])
                     ELSE Len(logs) + 1
             buffer == SubSeq(logs, idx, stop - 1)
             merged == [buffer[Len(buffer)] EXCEPT
                          !.text = JoinSpace([k \in 1..Len(buffer) |-> buffer[k].text])]
         IN  MergeFrom(logs, stop, Append(new_event_logs, merged))
    ELSE MergeFrom(logs, idx + 1, Append(new_event_logs, logs[idx]))

merge_event_logs(logs) == MergeFrom(logs, 1, << >>)

(***************************************************************************)
(* PROJECTOR: token accounting (token_utils.py), for a known model         *)
(***************************************************************************)
tokens_per_message == 3

\* The model names a caller passes: one of the set of lines 95-100, one that
\* is only in CHAT_GPT_MAX_TOKENS, and a fine-tuned name.
Models == {"gpt-4o-mini", "gpt-4o", "ft:gpt-4o-mini:org"}

NoTokenizerInfo == [found |-> FALSE, tokens_per_message |-> 0]

\* get_tokenizer_info, lines 92-110: None unless the model is in the set.
get_tokenizer_info(model) ==
    IF model \in {"gpt-4o-mini", "gpt-4.1", "gpt-4.1-mini", "gpt-4.1-nano"}
    THEN [found |-> TRUE, tokens_per_message |-> tokens_per_message]
    ELSE NoTokenizerInfo

\* num_tokens_from_messages, lines 115-119: NotImplementedError is raised.
num_tokens_raises(model) == ~get_tokenizer_info(model).found
reply_priming_tokens == 3

\* tokens_from_dict on a chat message: string values are encoded, None is
\* skipped, the tool_calls list is neither a str nor a dict and adds nothing.
tokens_from_dict(m) ==
    1                                                  \* "role"
    + (IF m.has_content THEN Len(m.content) ELSE 0)    \* "content"
    + (IF m.role = "tool" THEN 1 ELSE 0)               \* "tool_call_id"

RECURSIVE SumTokens(_, _)
SumTokens(messages, k) ==
    IF k > Len(messages) THEN 0
    ELSE tokens_per_message + tokens_from_dict(messages[k]) + SumTokens(messages, k + 1)

num_tokens_from_messages(messages) == SumTokens(messages, 1) + reply_priming_tokens

\* functions = None
num_tokens_from_functions == 0

context_size(messages) == num_tokens_from_messages(messages) + num_tokens_from_functions

(***************************************************************************)
(* PROJECTOR: the truncation loop                                          *)
(***************************************************************************)
RemoveAt(s, i) == SubSeq(s, 1, i - 1) \o SubSeq(s, i + 1, Len(s))

\* The message the for-loop skips (python index i >= 1 is TLA index >= 2).
NotSafeToRemove(msg) ==
    \/ msg.role = "system"
    \/ msg.role = "tool"
    \/ (msg.role = "assistant" /\ msg.tool_calls # << >>)

SafeIndexes(messages) ==
    {i \in 2..Len(messages) : ~NotSafeToRemove(messages[i])}

Min(S) == CHOOSE x \in S : \A y \in S : x <= y

\* Mutant of TruncateOnce: the oldest message after the system message goes.
TruncateOncePopFirst(messages) == RemoveAt(messages, 2)

\* One iteration of the while loop body, lines 224-244.
TruncateOnce(messages) ==
    IF SafeIndexes(messages) # {}
    THEN RemoveAt(messages, Min(SafeIndexes(messages)))
    ELSE RemoveAt(messages, 2)

\* Mutant of loop_continues: the break of lines 221-223 is missing.
loop_continues_no_break(messages, limit) == context_size(messages) > limit

\* The while condition of lines 218-220 and the break of lines 221-223: is
\* there another iteration?
loop_continues(messages, limit) ==
    /\ context_size(messages) > limit
    /\ ~(Len(messages) <= 1)

\* The context limits tried (the system message alone counts 8 tokens, every
\* further message 4 to 6): with 0 nothing fits, with SmallLimit the system
\* message and one more message fit, with LargeLimit two more.
Limits == {0, SmallLimit, LargeLimit}

(***************************************************************************)
(* PROJECTOR: actions                                                      *)
(***************************************************************************)
ProjInit ==
    /\ event_logs = << >>
    /\ chat_messages = << >>
    /\ ctx_limit = 0
    /\ proj_pc = "idle"
    /\ merged_logs = << >>
    /\ model_name = "gpt-4o-mini"

\* Transcript.add_*: the transcript is append-only.
AppendEvent ==
    /\ UNCHANGED not_proj_vars
    /\ proj_pc = "idle"
    /\ Len(event_logs) < MaxLog
    /\ \E e \in EventLogs : event_logs' = Append(event_logs, e)
    /\ UNCHANGED <<chat_messages, ctx_limit, proj_pc, merged_logs, model_name>>

\* A direct call of get_openai_chat_messages_from_transcript on the log.
GetMessages ==
    /\ UNCHANGED not_proj_vars
    /\ proj_pc = "idle"
    /\ chat_messages' = get_openai_chat_messages_from_transcript(event_logs, prompt_preamble)
    /\ proj_pc' = "projected"
    /\ UNCHANGED <<event_logs, ctx_limit, merged_logs, model_name>>

\* format_openai_chat_messages_from_transcript, lines 204-217, for a model
\* whose tokens can be counted.
FormatStart ==
    /\ UNCHANGED not_proj_vars
    /\ proj_pc = "idle"
    /\ \E model \in Models :
          /\ ~num_tokens_raises(model)
          /\ model_name' = model
    /\ \E limit \in Limits : ctx_limit' = limit
    /\ merged_logs' = merge_event_logs(event_logs)
    /\ chat_messages' = get_openai_chat_messages_from_transcript(
                            merged_logs', prompt_preamble)
    /\ proj_pc' = "trunc"
    /\ UNCHANGED event_logs

\* Lines 204-215 for a model whose tokens cannot be counted: the
\* NotImplementedError of num_tokens_from_messages leaves the function.
FormatRaisesNotImplemented ==
    /\ UNCHANGED not_proj_vars
    /\ proj_pc = "idle"
    /\ \E model \in Models :
          /\ num_tokens_raises(model)
          /\ model_name' = model
    /\ merged_logs' = merge_event_logs(event_logs)
    /\ chat_messages' = get_openai_chat_messages_from_transcript(
                            merged_logs', prompt_preamble)
    /\ proj_pc' = "raised"
    /\ UNCHANGED <<event_logs, ctx_limit>>

\* One iteration of the while loop, lines 218-249.
TruncIter ==
    /\ UNCHANGED not_proj_vars
    /\ proj_pc = "trunc"
    /\ loop_continues(chat_messages, ctx_limit)
    /\ chat_messages' = TruncateOnce(chat_messages)
    /\ UNCHANGED <<event_logs, ctx_limit, proj_pc, merged_logs, model_name>>

\* The loop ends: the condition is false, or the break of line 223.
TruncExit ==
    /\ UNCHANGED not_proj_vars
    /\ proj_pc = "trunc"
    /\ ~loop_continues(chat_messages, ctx_limit)
    /\ proj_pc' = "returned"
    /\ UNCHANGED <<event_logs, chat_messages, ctx_limit, merged_logs, model_name>>

\* The caller takes the returned list; the next call starts afresh.
ProjReturn ==
    /\ UNCHANGED not_proj_vars
    /\ proj_pc \in {"projected", "returned", "raised"}
    /\ proj_pc' = "idle"
    /\ chat_messages' = << >>
    /\ ctx_limit' = 0
    /\ merged_logs' = << >>
    /\ model_name' = "gpt-4o-mini"
    /\ UNCHANGED event_logs

\* The transcript grows to MaxLookLog entries of LookEventLogs.
LookAppendEvent ==
    /\ UNCHANGED not_proj_vars
    /\ proj_pc = "idle"
    /\ Len(event_logs) < MaxLookLog
    /\ \A k \in 1..Len(event_logs) : event_logs[k] \in LookEventLogs
    /\ \E e \in LookEventLogs : event_logs' = Append(event_logs, e)
    /\ UNCHANGED <<chat_messages, ctx_limit, proj_pc, merged_logs, model_name>>

LookNext ==
    \/ LookAppendEvent
    \/ GetMessages
    \/ ProjReturn

\* The transcript grows while the truncation is watched to its end: the same
\* append, for the first MaxTruncLog entries.
TruncAppendEvent ==
    /\ Len(event_logs) < MaxTruncLog
    /\ AppendEvent

TruncNext ==
    \/ TruncAppendEvent
    \/ GetMessages
    \/ FormatStart
    \/ FormatRaisesNotImplemented
    \/ TruncIter
    \/ TruncExit
    \/ ProjReturn

\* The loop is straight-line synchronous code: an iteration that can run,
\* and the return, are not postponed for ever.
TruncFairness ==
    /\ WF_vars(TruncIter)
    /\ WF_vars(TruncExit)

ProjNext ==
    \/ AppendEvent
    \/ GetMessages
    \/ FormatStart
    \/ FormatRaisesNotImplemented
    \/ TruncIter
    \/ TruncExit
    \/ ProjReturn


(***************************************************************************)
(* PROJECTOR: properties                                                   *)
(***************************************************************************)
ToolCallIdsOf(msg) == {msg.tool_calls[k].id : k \in 1..Len(msg.tool_calls)}

\* Every tool message is immediately preceded by an assistant message whose
\* tool_calls contains its id.
PairPreserved(messages) ==
    \A k \in 1..Len(messages) :
        messages[k].role = "tool" =>
            /\ k > 1
            /\ messages[k-1].role = "assistant"
            /\ messages[k].tool_call_id \in ToolCallIdsOf(messages[k-1])

\* No id is carried by two tool messages nor by two assistant tool_calls lists.
NoIdTwice(messages) ==
    \A k, m \in 1..Len(messages) :
        k # m =>
            /\ ~(/\ messages[k].role = "tool" /\ messages[m].role = "tool"
                 /\ messages[k].tool_call_id = messages[m].tool_call_id)
            /\ ToolCallIdsOf(messages[k]) \cap ToolCallIdsOf(messages[m]) = {}

\* C1: whatever the event log, in the list get_openai_chat_messages_from_transcript
\* returns every tool message directly follows an assistant message whose
\* tool_calls holds its id, and no tool_call_id is projected twice.
C1_PairPreservation ==
    proj_pc = "projected" =>
        PairPreserved(chat_messages) /\ NoIdTwice(chat_messages)

\* C1 witness: a projected list with a tool message whose id is carried by two
\* ActionStart entries of the log (the processed set has to drop one).
C1_Witness ==
    /\ proj_pc = "projected"
    /\ \E k \in 1..Len(chat_messages) :
          /\ chat_messages[k].role = "tool"
          /\ Cardinality({m \in 1..Len(event_logs) :
                 /\ event_logs[m].type = "ActionStart"
                 /\ ~event_logs[m].phrase
                 /\ event_logs[m].tool_call_id = chat_messages[k].tool_call_id}) = 2
    /\ \E k \in 1..Len(event_logs) : IsBot(event_logs[k])

\* C2 (as claimed): when the truncation loop has finished, every remaining
\* tool message still directly follows an assistant message whose tool_calls
\* holds its id.
C2_TruncationSafety ==
    proj_pc = "returned" => PairPreserved(chat_messages)

\* An entry of the log that opens a maximal run of BOT messages.
RunStart(logs, i) == IsBot(logs[i]) /\ (i = 1 \/ ~IsBot(logs[i - 1]))

\* The last entry of the run of BOT messages that holds entry i.
RunEnd(logs, i) ==
    CHOOSE j \in i..Len(logs) :
        /\ \A k \in i..j : IsBot(logs[k])
        /\ (j = Len(logs) \/ ~IsBot(logs[j + 1]))

\* The entries of the log that have an entry of their own in the merged log.
KeptEntries(logs) ==
    {k \in 1..Len(logs) : ~IsBot(logs[k]) \/ RunStart(logs, k)}

\* The place in the merged log of a kept entry i.
OutputIndex(logs, i) == Cardinality({k \in KeptEntries(logs) : k <= i})

NoAdjacentBot(out) ==
    \A k \in 1..(Len(out) - 1) : ~(IsBot(out[k]) /\ IsBot(out[k + 1]))

MergedAsClaimed(logs, out) ==
    /\ Len(out) = Cardinality(KeptEntries(logs))
    /\ \A i \in 1..Len(logs) :
          ~IsBot(logs[i]) => out[OutputIndex(logs, i)] = logs[i]
    /\ \A i \in 1..Len(logs) :
          RunStart(logs, i) =>
              LET j == RunEnd(logs, i)
              IN  out[OutputIndex(logs, i)] =
                      [logs[j] EXCEPT !.text =
                          JoinSpace([k \in 1..(j - i + 1) |-> logs[i + k - 1].text])]
    /\ NoAdjacentBot(out)

\* C18: the log merge_event_logs returns has no two adjacent BOT messages;
\* every entry that is not a BOT message is in it unchanged and in order, and
\* every maximal run of BOT messages is one BOT message whose text is the
\* texts of the run, in order, joined by single spaces; merging the merged
\* log again changes nothing.
C18_MergeCorrect ==
    proj_pc \in {"returned", "raised"} =>
        /\ MergedAsClaimed(event_logs, merged_logs)
        /\ merge_event_logs(merged_logs) = merged_logs

\* C18 witness: a log with a run of two BOT messages of different texts and
\* an entry that is not a BOT message was merged into a shorter log.
C18_Witness ==
    /\ proj_pc = "returned"
    /\ Len(merged_logs) < Len(event_logs)
    /\ \E i \in 1..(Len(event_logs) - 1) :
          /\ RunStart(event_logs, i)
          /\ IsBot(event_logs[i + 1])
          /\ event_logs[i].text # event_logs[i + 1].text
    /\ \E i \in 1..Len(event_logs) : ~IsBot(event_logs[i])

\* The messages get_openai_chat_messages_from_transcript gave the loop.
ProjectedMessages == get_openai_chat_messages_from_transcript(merged_logs, prompt_preamble)

\* A message the claim lets an iteration remove.
Removable(msg) ==
    /\ msg.role # "system"
    /\ msg.role # "tool"
    /\ ~(msg.role = "assistant" /\ Len(msg.tool_calls) > 0)

\* before without its entry i is after: the others keep their order.
RemovedAt(before, after, i) ==
    /\ Len(after) = Len(before) - 1
    /\ \A k \in 1..(i - 1) : after[k] = before[k]
    /\ \A k \in i..Len(after) : after[k] = before[k + 1]

\* C22: an iteration of the truncation loop removes exactly one message: the
\* first removable one after index 0, or, when there is none, the message at
\* index 1 (entry 2 here); the other messages keep their order.
C22_RemovesOneSafeMessage ==
    [][(proj_pc = "trunc" /\ chat_messages' # chat_messages) =>
         \E i \in 2..Len(chat_messages) :
            /\ RemovedAt(chat_messages, chat_messages', i)
            /\ \/ /\ Removable(chat_messages[i])
                  /\ \A k \in 2..(i - 1) : ~Removable(chat_messages[k])
               \/ /\ i = 2
                  /\ \A k \in 2..Len(chat_messages) : ~Removable(chat_messages[k])]_vars

\* C22 witness: one iteration has removed a message behind an assistant
\* message with tool_calls and its tool message, which are still there.
C22_Witness ==
    /\ proj_pc = "trunc"
    /\ Len(chat_messages) = Len(ProjectedMessages) - 1
    /\ Len(chat_messages) >= 3
    /\ chat_messages[2] = ProjectedMessages[2]
    /\ chat_messages[2].role = "assistant"
    /\ Len(chat_messages[2].tool_calls) > 0
    /\ chat_messages[3] = ProjectedMessages[3]
    /\ Removable(ProjectedMessages[4])

SystemMessage == ChatMessage("system", TRUE, prompt_preamble, << >>, NoId)

\* C23: the truncation loop ends; while it runs and when it has returned the
\* list starts with the system message carrying the preamble; every
\* iteration takes one message away and never the first, so that at most
\* (projected messages - 1) are removed; with the system message alone the
\* loop returns, however small the limit.
C23_TruncationTerminates ==
    /\ [](proj_pc \in {"trunc", "returned"} =>
            /\ Len(chat_messages) >= 1
            /\ chat_messages[1] = SystemMessage
            /\ Len(ProjectedMessages) - Len(chat_messages) <= Len(ProjectedMessages) - 1)
    /\ [][(proj_pc = "trunc" /\ chat_messages' # chat_messages) =>
             /\ Len(chat_messages') = Len(chat_messages) - 1
             /\ chat_messages'[1] = chat_messages[1]]_vars
    /\ [][(proj_pc = "trunc" /\ Len(chat_messages) = 1) =>
             /\ chat_messages' = chat_messages
             /\ proj_pc' = "returned"]_vars
    /\ ((proj_pc = "trunc") ~> (proj_pc = "returned"))

\* C23 witness: the loop has returned the system message alone, still over
\* the limit, having removed an assistant message with its tool message and
\* a user message.
C23_Witness ==
    /\ proj_pc = "returned"
    /\ chat_messages = <<SystemMessage>>
    /\ context_size(chat_messages) > ctx_limit
    /\ Len(ProjectedMessages) = 4
    /\ \E k \in 2..4 : ProjectedMessages[k].role = "tool"
    /\ \E k \in 2..4 : ProjectedMessages[k].role = "user"

\* The log the projected messages were made from.
ProjLog == IF proj_pc = "projected" THEN event_logs ELSE merged_logs

\* The ids for which the log holds a non-phrase ActionFinish.
FinishedIds ==
    {ProjLog[k].tool_call_id : k \in
        {k \in 1..Len(ProjLog) : /\ ProjLog[k].type = "ActionFinish"
                                 /\ ~ProjLog[k].phrase
                                 /\ ProjLog[k].tool_call_id # NoId}}

\* A non-phrase ActionStart with a tool_call_id that has a matching ActionFinish.
Candidate(j) ==
    /\ ProjLog[j].type = "ActionStart"
    /\ ~ProjLog[j].phrase
    /\ ProjLog[j].tool_call_id \in FinishedIds

IsHuman(k) == ProjLog[k].type = "Message" /\ ProjLog[k].sender = "HUMAN"

\* A BOT Message whose text is not blank.
SpokenBot(i) == IsBot(ProjLog[i]) /\ ~StripIsEmpty(ProjLog[i].text)

\* j is one of the four entries after i and no HUMAN Message lies before it.
InWindow(i, j) ==
    /\ j \in (i + 1)..(i + 4)
    /\ j <= Len(ProjLog)
    /\ \A k \in (i + 1)..(j - 1) : ~IsHuman(k)

\* The ActionStart a BOT Message at i carries (0: none): the first candidate
\* of its window whose id no earlier entry has projected, which are the ids
\* of the candidates before i and of those carried by BOT Messages before i.
Attached[i \in 0..Len(ProjLog)] ==
    IF i = 0 \/ ~SpokenBot(i) THEN 0
    ELSE LET projected ==
                 {ProjLog[k].tool_call_id : k \in {k \in 1..(i - 1) : Candidate(k)}}
                 \cup {ProjLog[Attached[k]].tool_call_id :
                          k \in {k \in 1..(i - 1) : Attached[k] # 0}}
             found == {j \in 1..Len(ProjLog) :
                          /\ InWindow(i, j)
                          /\ Candidate(j)
                          /\ ProjLog[j].tool_call_id \notin projected}
         IN  IF found = {} THEN 0 ELSE Min(found)

\* A candidate ActionStart whose tool call no earlier entry has projected.
OrphanStart(k) ==
    /\ Candidate(k)
    /\ \A m \in 1..(k - 1) :
          /\ ~(Candidate(m) /\ ProjLog[m].tool_call_id = ProjLog[k].tool_call_id)
          /\ Attached[m] # k
          /\ (Attached[m] # 0 =>
                 ProjLog[Attached[m]].tool_call_id # ProjLog[k].tool_call_id)

\* The number of chat messages entry k of the log is projected to.
Emits(k) ==
    IF SpokenBot(k) THEN (IF Attached[k] # 0 THEN 2 ELSE 1)
    ELSE IF IsHuman(k) /\ ~StripIsEmpty(ProjLog[k].text) THEN 1
    ELSE IF ProjLog[k].type = "ConferenceEvent" THEN 1
    ELSE IF OrphanStart(k) THEN 2
    ELSE 0

\* The place in the chat messages of the first message of entry i.
PlaceOf[i \in 1..(Len(ProjLog) + 1)] ==
    IF i = 1 THEN 2 ELSE PlaceOf[i - 1] + Emits(i - 1)

\* The last non-phrase ActionFinish of the id: the text of the tool message.
FinishText(id) ==
    LET last == CHOOSE k \in 1..Len(ProjLog) :
                   /\ ProjLog[k].type = "ActionFinish" /\ ~ProjLog[k].phrase
                   /\ ProjLog[k].tool_call_id = id
                   /\ \A m \in (k + 1)..Len(ProjLog) :
                         ~(/\ ProjLog[m].type = "ActionFinish" /\ ~ProjLog[m].phrase
                           /\ ProjLog[m].tool_call_id = id)
    IN  ProjLog[last].text

\* C24: a BOT Message with text at position i is projected as an assistant
\* message with tool_calls exactly when one of the entries i+1..i+4, before
\* the next HUMAN Message, is a non-phrase ActionStart with a tool_call_id
\* that has a matching ActionFinish and was not projected before; it then
\* carries that one tool call, of the first such ActionStart, and one tool
\* message for it follows; otherwise it is a plain assistant message.
C24_BotLookAhead ==
    proj_pc = "projected" =>
        \A i \in 1..Len(ProjLog) :
            SpokenBot(i) =>
                LET m == PlaceOf[i]
                    j == Attached[i]
                IN  IF j # 0
                    THEN /\ m + 1 <= Len(chat_messages)
                         /\ chat_messages[m].role = "assistant"
                         /\ chat_messages[m].has_content
                         /\ chat_messages[m].content = ProjLog[i].text
                         /\ Len(chat_messages[m].tool_calls) = 1
                         /\ chat_messages[m].tool_calls[1].id = ProjLog[j].tool_call_id
                         /\ chat_messages[m + 1].role = "tool"
                         /\ chat_messages[m + 1].tool_call_id = ProjLog[j].tool_call_id
                         /\ (m + 2 <= Len(chat_messages) =>
                                chat_messages[m + 2].role # "tool")
                    ELSE /\ m <= Len(chat_messages)
                         /\ chat_messages[m] =
                               ChatMessage("assistant", TRUE, ProjLog[i].text, << >>, NoId)

\* C24 witness: the ActionStart four entries after a BOT Message is carried
\* by it, and a BOT Message with the same ActionStart five entries after it
\* is a plain assistant message.
C24_Witness ==
    /\ proj_pc = "projected"
    /\ Len(ProjLog) = 6
    /\ SpokenBot(1) /\ Attached[1] = 0 /\ Candidate(6)
    /\ \A k \in 2..5 : ~IsHuman(k)
    /\ SpokenBot(2) /\ Attached[2] = 6
    /\ chat_messages[PlaceOf[1]].tool_calls = << >>
    /\ Len(chat_messages[PlaceOf[2]].tool_calls) = 1

StartedIds ==
    {ProjLog[k].tool_call_id : k \in
        {k \in 1..Len(ProjLog) : /\ ProjLog[k].type = "ActionStart"
                                 /\ ~ProjLog[k].phrase
                                 /\ ProjLog[k].tool_call_id # NoId}}

\* The ids of the tool messages and of the tool_calls entries projected.
EmittedIds ==
    {chat_messages[m].tool_call_id :
        m \in {m \in 1..Len(chat_messages) : chat_messages[m].role = "tool"}}
    \cup UNION {ToolCallIdsOf(chat_messages[m]) : m \in 1..Len(chat_messages)}

RECURSIVE CountToolCalls(_)
CountToolCalls(messages) ==
    IF messages = << >> THEN 0
    ELSE Len(Head(messages).tool_calls) + CountToolCalls(Tail(messages))

\* C35: an id is projected, as a tool message or as a tool_calls entry,
\* only when the log holds a non-phrase ActionStart and a non-phrase
\* ActionFinish with it: a start without finish, a finish without start and
\* phrase-triggered entries bring no message with their id; and there are
\* as many tool messages as tool_calls entries.
C35_UnpairedContributeNothing ==
    proj_pc = "projected" =>
        /\ EmittedIds \subseteq (StartedIds \cap FinishedIds)
        /\ Cardinality({m \in 1..Len(chat_messages) : chat_messages[m].role = "tool"})
              = CountToolCalls(chat_messages)

\* C35 witness: the log holds a start of "T2" that never finishes, a
\* phrase-triggered entry, and a start and finish of "T1"; one tool message
\* and one tool_calls entry, of "T1", were projected.
C35_Witness ==
    /\ proj_pc = "projected"
    /\ "T2" \in StartedIds \ FinishedIds
    /\ \E k \in 1..Len(ProjLog) : ProjLog[k].phrase
    /\ EmittedIds = {"T1"}
    /\ CountToolCalls(chat_messages) = 1

\* C19 (as claimed): the token count of the projected messages is computed
\* for every model name: format_openai_chat_messages_from_transcript never
\* leaves with the NotImplementedError of num_tokens_from_messages.
C19_TokensForEveryModel ==
    proj_pc # "raised"

(***************************************************************************)
(* OUTPUT DEVICE: RateLimitInterruptionsOutputDevice                       *)
(***************************************************************************)
\* The constructor's per_chunk_allowance_seconds, in ticks.
per_chunk_allowance_seconds == 1

\* len(audio_chunk.data) / get_chunk_size_per_second(...), in ticks.
Durations == 1..MaxDuration

Max2(a, b) == IF a >= b THEN a ELSE b

\* A fresh InterruptibleEvent wrapping an AudioChunk of the given duration.
NewChunk(d) ==
    [dur |-> d, state |-> "QUEUED", is_interruptible |-> TRUE,
     interruption_set |-> FALSE, on_play |-> 0, on_interrupt |-> 0]

\* InterruptibleEvent.is_interrupted()
is_interrupted(ev) == ev.is_interruptible /\ ev.interruption_set

\* Mutant of mark_interrupted: the chunk is marked as played.
mark_interrupted_as_played(cs, c) ==
    [cs EXCEPT ![c].on_play = @ + 1, ![c].state = "PLAYED"]

\* Lines 42-43: audio_chunk.on_interrupt(); audio_chunk.state = INTERRUPTED
mark_interrupted(cs, c) ==
    [cs EXCEPT ![c].on_interrupt = @ + 1, ![c].state = "INTERRUPTED"]

\* Mutant of mark_played: the event stops being interruptible at once.
mark_played_not_interruptible(cs, c) ==
    [cs EXCEPT ![c].on_play = @ + 1, ![c].state = "PLAYED",
               ![c].is_interruptible = FALSE]

\* Mutant of mark_played: on_interrupt is fired as well.
mark_played_both_hooks(cs, c) ==
    [cs EXCEPT ![c].on_play = @ + 1, ![c].on_interrupt = @ + 1, ![c].state = "PLAYED"]

\* Lines 52-53: audio_chunk.on_play(); audio_chunk.state = PLAYED
mark_played(cs, c) ==
    [cs EXCEPT ![c].on_play = @ + 1, ![c].state = "PLAYED"]

\* Mutant of QueueGet: the newest entry is taken.
QueueGetNewest(q) ==
    [got |-> q[Len(q)], rest |-> SubSeq(q, 1, Len(q) - 1)]

\* asyncio.Queue.get on a non-empty queue.
QueueGet(q) == [got |-> Head(q), rest |-> Tail(q)]

\* The argument of asyncio.sleep, lines 55-62.
SleepSeconds(speech_length_seconds, end_time, start) ==
    Max2(speech_length_seconds - (end_time - start) - per_chunk_allowance_seconds, 0)

\* The loop has been started: start_time is taken, the loop awaits the queue.
DevInit ==
    /\ now = 0
    /\ chunks = << >>
    /\ input_queue = << >>
    /\ dev_pc = "get"
    /\ start_time = 0
    /\ sleep_until = 0
    /\ item = 0
    /\ is_processing = FALSE
    /\ sink_log = << >>
    /\ on_play_log = << >>


Tick ==
    /\ UNCHANGED not_dev_vars
    /\ now < MaxTime
    /\ now' = now + 1
    /\ UNCHANGED <<chunks, input_queue, dev_pc, start_time, sleep_until, item,
                   is_processing, sink_log, on_play_log>>

\* The producer: consume_nonblocking puts an event on the queue.
Enqueue ==
    /\ UNCHANGED not_dev_vars
    /\ Len(chunks) < MaxChunks
    /\ \E d \in Durations : chunks' = Append(chunks, NewChunk(d))
    /\ input_queue' = Append(input_queue, Len(chunks) + 1)
    /\ UNCHANGED <<now, dev_pc, start_time, sleep_until, item, is_processing,
                   sink_log, on_play_log>>

\* InterruptibleEvent.interrupt() on an event the conversation still holds.
Interrupt ==
    /\ UNCHANGED not_dev_vars
    /\ \E c \in 1..Len(chunks) :
          /\ chunks[c].is_interruptible
          /\ ~chunks[c].interruption_set
          /\ chunks' = [chunks EXCEPT ![c].interruption_set = TRUE]
    /\ UNCHANGED <<now, input_queue, dev_pc, start_time, sleep_until, item,
                   is_processing, sink_log, on_play_log>>

\* Lines 33-45: get() returns an interrupted event; the loop continues with a
\* new start_time.
DequeueInterrupted ==
    /\ UNCHANGED not_dev_vars
    /\ dev_pc = "get"
    /\ input_queue # << >>
    /\ LET g == QueueGet(input_queue) IN
         /\ is_interrupted(chunks[g.got])
         /\ input_queue' = g.rest
         /\ item' = g.got
         /\ chunks' = mark_interrupted(chunks, g.got)
    /\ is_processing' = FALSE
    /\ start_time' = now
    /\ UNCHANGED <<now, dev_pc, sleep_until, sink_log, on_play_log>>

\* Mutant of DequeuePlay: the in-flight flag is not set at the dequeue.
DequeuePlayLateFlag ==
    /\ UNCHANGED not_dev_vars
    /\ dev_pc = "get"
    /\ input_queue # << >>
    /\ LET g == QueueGet(input_queue) IN
         /\ ~is_interrupted(chunks[g.got])
         /\ input_queue' = g.rest
         /\ item' = g.got
         /\ sink_log' = Append(sink_log, <<"start", g.got>>)
    /\ dev_pc' = "play"
    /\ UNCHANGED <<now, chunks, start_time, sleep_until, on_play_log, is_processing>>

\* Lines 33-51: get() returns an event that is not interrupted; play() is awaited.
DequeuePlay ==
    /\ UNCHANGED not_dev_vars
    /\ dev_pc = "get"
    /\ input_queue # << >>
    /\ LET g == QueueGet(input_queue) IN
         /\ ~is_interrupted(chunks[g.got])
         /\ input_queue' = g.rest
         /\ item' = g.got
         /\ sink_log' = Append(sink_log, <<"start", g.got>>)
    /\ is_processing' = TRUE
    /\ dev_pc' = "play"
    /\ UNCHANGED <<now, chunks, start_time, sleep_until, on_play_log>>

\* Lines 51-62: play() returns; on_play, PLAYED, and the pacing sleep starts.
PlayReturns ==
    /\ UNCHANGED not_dev_vars
    /\ dev_pc = "play"
    /\ sink_log' = Append(sink_log, <<"end", item>>)
    /\ on_play_log' = Append(on_play_log, [chunk |-> item, at |-> now])
    /\ chunks' = mark_played(chunks, item)
    /\ sleep_until' = now + SleepSeconds(chunks[item].dur, now, start_time)
    /\ dev_pc' = "sleep"
    /\ UNCHANGED <<now, input_queue, start_time, item, is_processing>>

\* Mutant of PlayRaises: the error is swallowed and the loop goes on.
PlayRaisesLoopGoesOn ==
    /\ UNCHANGED not_dev_vars
    /\ dev_pc = "play"
    /\ dev_pc' = "get"
    /\ is_processing' = FALSE
    /\ start_time' = now
    /\ UNCHANGED <<now, chunks, input_queue, sleep_until, item, sink_log, on_play_log>>

\* Line 51: play() raises; the error leaves _run_loop.
PlayRaises ==
    /\ UNCHANGED not_dev_vars
    /\ dev_pc = "play"
    /\ dev_pc' = "raised"
    /\ UNCHANGED <<now, chunks, input_queue, start_time, sleep_until, item,
                   is_processing, sink_log, on_play_log>>

\* Lines 55-64 and 31: the sleep ends; the next iteration takes start_time.
SleepReturns ==
    /\ UNCHANGED not_dev_vars
    /\ dev_pc = "sleep"
    /\ now >= sleep_until
    /\ chunks' = [chunks EXCEPT ![item].is_interruptible = FALSE]
    /\ is_processing' = FALSE
    /\ start_time' = now
    /\ dev_pc' = "get"
    /\ UNCHANGED <<now, input_queue, sleep_until, item, sink_log, on_play_log>>

\* Lines 34-35: the task is cancelled while it awaits the queue.
CancelAtGet ==
    /\ UNCHANGED not_dev_vars
    /\ dev_pc = "get"
    /\ dev_pc' = "returned"
    /\ UNCHANGED <<now, chunks, input_queue, start_time, sleep_until, item,
                   is_processing, sink_log, on_play_log>>

\* The task is cancelled while it awaits play() or the sleep: CancelledError
\* is not caught there and leaves _run_loop.
CancelElsewhere ==
    /\ UNCHANGED not_dev_vars
    /\ dev_pc \in {"play", "sleep"}
    /\ dev_pc' = "raised"
    /\ UNCHANGED <<now, chunks, input_queue, start_time, sleep_until, item,
                   is_processing, sink_log, on_play_log>>

DevNext ==
    \/ Tick
    \/ Enqueue
    \/ Interrupt
    \/ DequeueInterrupted
    \/ DequeuePlay
    \/ PlayReturns
    \/ PlayRaises
    \/ SleepReturns
    \/ CancelAtGet
    \/ CancelElsewhere


(***************************************************************************)
(* OUTPUT DEVICE: properties                                               *)
(***************************************************************************)
\* C3 (as claimed): between two consecutive on_play hooks, of chunks of
\* durations d1 and d2, at least d1 - per_chunk_allowance of wall time passes.
C3_Pacing ==
    \A k \in 1..(Len(on_play_log) - 1) :
        on_play_log[k+1].at - on_play_log[k].at
            >= chunks[on_play_log[k].chunk].dur - per_chunk_allowance_seconds

\* C4: the calls of play() follow the enqueue order: an earlier-enqueued chunk
\* has its play() started and completed before a later-enqueued one starts.
C4_Fifo ==
    \A p, q \in 1..Len(sink_log) :
        p < q => sink_log[p][2] <= sink_log[q][2]

\* C4 witness: two chunks were played and a chunk enqueued between them was
\* interrupted.
C4_Witness ==
    \E a, b, c \in 1..Len(chunks) :
        /\ a < b /\ b < c
        /\ chunks[a].state = "PLAYED"
        /\ chunks[b].state = "INTERRUPTED"
        /\ chunks[c].state = "PLAYED"

\* C16: a chunk whose event reported the interruption at its dequeue is
\* INTERRUPTED with on_interrupt fired once, was never given to play() and
\* never had on_play fired; the step that dequeues it starts no play and no
\* sleep and leaves the loop at the next dequeue.
C16_InterruptedSkipped ==
    /\ [](\A c \in 1..Len(chunks) :
              chunks[c].state = "INTERRUPTED" =>
                  /\ chunks[c].on_interrupt = 1
                  /\ chunks[c].on_play = 0
                  /\ \A k \in 1..Len(sink_log) : sink_log[k][2] # c
                  /\ \A k \in 1..Len(on_play_log) : on_play_log[k].chunk # c)
    /\ [][(/\ dev_pc = "get"
           /\ input_queue # << >>
           /\ input_queue' = Tail(input_queue)
           /\ chunks[Head(input_queue)].is_interruptible
           /\ chunks[Head(input_queue)].interruption_set)
              => /\ chunks'[Head(input_queue)].state = "INTERRUPTED"
                 /\ chunks'[Head(input_queue)].on_interrupt
                       = chunks[Head(input_queue)].on_interrupt + 1
                 /\ sink_log' = sink_log
                 /\ on_play_log' = on_play_log
                 /\ sleep_until' = sleep_until
                 /\ ~is_processing'
                 /\ dev_pc' = "get"]_vars

\* C27: a chunk that is not interrupted at its dequeue goes to the sink, then
\* gets on_play and PLAYED, then the pacing sleep runs, then the event's
\* is_interruptible is set to False: while play() or the sleep is awaited the
\* event is interruptible; the flag changes only at the end of the sleep, to
\* False, for the event just processed, and never back to True.
C27_PlayOrder ==
    /\ [](dev_pc = "play" =>
            /\ sink_log[Len(sink_log)] = <<"start", item>>
            /\ chunks[item].state = "QUEUED"
            /\ chunks[item].on_play = 0
            /\ chunks[item].is_interruptible)
    /\ [](dev_pc = "sleep" =>
            /\ sink_log[Len(sink_log)] = <<"end", item>>
            /\ on_play_log[Len(on_play_log)].chunk = item
            /\ chunks[item].state = "PLAYED"
            /\ chunks[item].on_play = 1
            /\ chunks[item].is_interruptible)
    /\ [][\A c \in 1..Len(chunks) :
             chunks'[c].is_interruptible # chunks[c].is_interruptible =>
                 /\ ~chunks'[c].is_interruptible
                 /\ c = item
                 /\ dev_pc = "sleep" /\ dev_pc' = "get"
                 /\ now >= sleep_until
                 /\ chunks[c].state = "PLAYED"]_vars

\* C27 witness: the pacing sleep of a second chunk is running, the chunk is
\* interruptible and an interruption of it was requested; the first chunk,
\* played before, is not interruptible any more.
C27_Witness ==
    /\ dev_pc = "sleep"
    /\ now < sleep_until
    /\ item = 2
    /\ chunks[2].is_interruptible /\ chunks[2].interruption_set
    /\ chunks[1].state = "PLAYED"
    /\ ~chunks[1].is_interruptible

\* A chunk whose play() was started and has not returned.
PlayUnfinished(c) ==
    /\ \E k \in 1..Len(sink_log) : sink_log[k] = <<"start", c>>
    /\ \A k \in 1..Len(sink_log) : sink_log[k] # <<"end", c>>

\* C28: when play() fails for a chunk the loop has stopped with the error:
\* the chunk got no on_play and is not PLAYED, it is the last chunk given to
\* the sink, and from then on nothing is dequeued, sent, slept or marked.
C28_PlayFailureStops ==
    /\ [](\A c \in 1..Len(chunks) :
            (PlayUnfinished(c) /\ dev_pc # "play") =>
                /\ dev_pc = "raised"
                /\ c = item
                /\ sink_log[Len(sink_log)] = <<"start", c>>
                /\ chunks[c].state # "PLAYED"
                /\ chunks[c].on_play = 0
                /\ \A k \in 1..Len(on_play_log) : on_play_log[k].chunk # c)
    /\ [][dev_pc = "raised" =>
             /\ dev_pc' = "raised"
             /\ sink_log' = sink_log
             /\ on_play_log' = on_play_log
             /\ sleep_until' = sleep_until
             /\ item' = item
             /\ Len(input_queue') >= Len(input_queue)
             /\ SubSeq(input_queue', 1, Len(input_queue)) = input_queue
             /\ \A c \in 1..Len(chunks) : chunks'[c].state = chunks[c].state]_vars

\* C28 witness: play() failed for the first chunk while a second one waits
\* in the queue, which was enqueued after the failure.
C28_Witness ==
    /\ dev_pc = "raised"
    /\ PlayUnfinished(1)
    /\ sink_log = << <<"start", 1>> >>
    /\ input_queue = <<2>>
    /\ chunks[2].state = "QUEUED"
    /\ now > 0

\* C37: a chunk has at most one hook fired, at most once; it is PLAYED
\* exactly when on_play was fired and INTERRUPTED exactly when on_interrupt
\* was; its state changes only from QUEUED, for the chunk just dequeued,
\* together with its hook, and a hook fires only together with the change.
C37_OneHookOnce ==
    /\ [](\A c \in 1..Len(chunks) :
            /\ chunks[c].on_play + chunks[c].on_interrupt <= 1
            /\ (chunks[c].state = "PLAYED") = (chunks[c].on_play = 1)
            /\ (chunks[c].state = "INTERRUPTED") = (chunks[c].on_interrupt = 1))
    /\ [][\A c \in 1..Len(chunks) :
             /\ chunks'[c].state # chunks[c].state =>
                   /\ chunks[c].state = "QUEUED"
                   /\ c = item'
                   /\ \/ /\ chunks'[c].state = "PLAYED"
                         /\ chunks'[c].on_play = chunks[c].on_play + 1
                         /\ chunks'[c].on_interrupt = chunks[c].on_interrupt
                      \/ /\ chunks'[c].state = "INTERRUPTED"
                         /\ chunks'[c].on_interrupt = chunks[c].on_interrupt + 1
                         /\ chunks'[c].on_play = chunks[c].on_play
             /\ chunks'[c].state = chunks[c].state =>
                   /\ chunks'[c].on_play = chunks[c].on_play
                   /\ chunks'[c].on_interrupt = chunks[c].on_interrupt]_vars

\* C37 witness: the first chunk was played and its interruption requested
\* during its pacing sleep; the second was interrupted at its dequeue; the
\* first is still PLAYED with on_play alone.
C37_Witness ==
    /\ Len(chunks) >= 2
    /\ chunks[1].state = "PLAYED"
    /\ chunks[1].interruption_set
    /\ chunks[1].on_interrupt = 0
    /\ chunks[2].state = "INTERRUPTED"
    /\ chunks[2].on_play = 0
    /\ dev_pc = "get"

\* C39 (as claimed): the in-flight flag is True only between the dequeue of
\* a chunk and the end of its handling, and it is False once the loop has
\* stopped, whatever stopped it.
C39_FlagFalseWhenStopped ==
    /\ is_processing => dev_pc \in {"play", "sleep"}
    /\ dev_pc \in {"returned", "raised"} => ~is_processing

\* C16 witness: after a played chunk an interrupted one was dequeued and
\* skipped, and the loop stands at the dequeue of a third.
C16_Witness ==
    /\ dev_pc = "get"
    /\ item > 1
    /\ chunks[item].state = "INTERRUPTED"
    /\ on_play_log # << >>
    /\ input_queue # << >>

(***************************************************************************)
(* OUTPUT DEVICE: wait_for_drain                                           *)
(***************************************************************************)
\* The timeouts a caller passes, in ticks.
Timeouts == {0, 1}

\* Mutant of is_drained: an empty queue is enough.
is_drained_queue_only(queue, processing) == queue = << >>

\* Line 73: self._input_queue.empty() and not self._is_processing
is_drained(queue, processing) == queue = << >> /\ ~processing

\* Line 75: time.time() - start_time > timeout
timed_out(time, start, timeout) == time - start > timeout

DrainInit ==
    /\ drain_pc = "idle"
    /\ drain_start = 0
    /\ drain_timeout = 0
    /\ drain_result = "none"

\* Line 71: wait_for_drain(timeout) is called and takes start_time.  (The
\* call is made while the clock of the model can still pass the timeout.)
DrainCall ==
    /\ UNCHANGED not_drain_vars
    /\ drain_pc = "idle"
    /\ \E timeout \in Timeouts :
          /\ now + timeout < MaxTime
          /\ drain_timeout' = timeout
    /\ drain_start' = now
    /\ drain_pc' = "check"
    /\ UNCHANGED drain_result

\* Lines 73-74.
DrainReturnsTrue ==
    /\ UNCHANGED not_drain_vars
    /\ drain_pc = "check"
    /\ is_drained(input_queue, is_processing)
    /\ drain_result' = "True"
    /\ drain_pc' = "returned"
    /\ UNCHANGED <<drain_start, drain_timeout>>

\* Lines 75-76.
DrainReturnsFalse ==
    /\ UNCHANGED not_drain_vars
    /\ drain_pc = "check"
    /\ ~is_drained(input_queue, is_processing)
    /\ timed_out(now, drain_start, drain_timeout)
    /\ drain_result' = "False"
    /\ drain_pc' = "returned"
    /\ UNCHANGED <<drain_start, drain_timeout>>

\* Line 77: await asyncio.sleep(0.1) starts.
DrainSleeps ==
    /\ UNCHANGED not_drain_vars
    /\ drain_pc = "check"
    /\ ~is_drained(input_queue, is_processing)
    /\ ~timed_out(now, drain_start, drain_timeout)
    /\ drain_pc' = "sleep"
    /\ UNCHANGED <<drain_start, drain_timeout, drain_result>>

\* Line 77: the sleep ends (a tenth of a second is less than a tick) and the
\* loop tests again.
DrainWakes ==
    /\ UNCHANGED not_drain_vars
    /\ drain_pc = "sleep"
    /\ drain_pc' = "check"
    /\ UNCHANGED <<drain_start, drain_timeout, drain_result>>

DrainNext ==
    \/ DrainCall
    \/ DrainReturnsTrue
    \/ DrainReturnsFalse
    \/ DrainSleeps
    \/ DrainWakes

\* The consumer loop, its producer, and one call of wait_for_drain.
\* The producer while a caller waits for the drain: the same put, for the
\* first MaxDrainChunks chunks.
DrainEnqueue ==
    /\ Len(chunks) < MaxDrainChunks
    /\ Enqueue

DevDrainNext ==
    \/ Tick
    \/ DrainEnqueue
    \/ Interrupt
    \/ DequeueInterrupted
    \/ DequeuePlay
    \/ PlayReturns
    \/ PlayRaises
    \/ SleepReturns
    \/ CancelAtGet
    \/ CancelElsewhere
    \/ DrainNext

\* The event loop runs a task that can run, a sleep ends, and time passes.
DrainFairness ==
    /\ WF_vars(Tick)
    /\ WF_vars(DrainReturnsTrue)
    /\ WF_vars(DrainReturnsFalse)
    /\ WF_vars(DrainSleeps)
    /\ WF_vars(DrainWakes)

\* C15: a call of wait_for_drain returns; it returns True only in a step
\* taken when the queue is empty and nothing is being processed, and False
\* only when more than the timeout has passed since the call.
C15_DrainReturns ==
    /\ [][(drain_result = "none" /\ drain_result' = "True")
              => (input_queue = << >> /\ ~is_processing)]_vars
    /\ [][(drain_result = "none" /\ drain_result' = "False")
              => (now - drain_start > drain_timeout)]_vars
    /\ (drain_pc \in {"check", "sleep"}) ~> (drain_pc = "returned")

\* C38: in the step in which wait_for_drain returns True every chunk
\* enqueued so far is PLAYED or INTERRUPTED, and the loop is neither in
\* play() nor in the pacing sleep: no chunk is dequeued and not in flight.
C38_DrainedMeansHandled ==
    [][(drain_result = "none" /\ drain_result' = "True") =>
          /\ \A c \in 1..Len(chunks) : chunks[c].state \in {"PLAYED", "INTERRUPTED"}
          /\ dev_pc \notin {"play", "sleep"}
          /\ \A c \in 1..Len(chunks) : ~PlayUnfinished(c)]_vars

\* C38 witness: the call was made before the chunk's on_play and has
\* returned True after the chunk's pacing sleep.
C38_Witness ==
    /\ drain_pc = "returned"
    /\ drain_result = "True"
    /\ Len(chunks) = 1
    /\ chunks[1].state = "PLAYED"
    /\ ~chunks[1].is_interruptible
    /\ on_play_log[1].at > drain_start

\* C15 witness: play() raised with a chunk in flight, and the call has
\* returned False after its timeout.
C15_Witness ==
    /\ dev_pc = "raised"
    /\ is_processing
    /\ drain_pc = "returned"
    /\ drain_result = "False"
    /\ drain_timeout = 1

(***************************************************************************)
(* PARAMETER FORMATTER (parameter_formatters.py)                           *)
(***************************************************************************)
\* A JSON value of a payload.  A string is either an ISO-8601 datetime, kept
\* as what datetime.fromisoformat reads from it (the day since 1970-01-01, the
\* second of that day, the zone suffix), or some other text; an int is n.
StrPlain(t) ==
    [kind |-> "str", text |-> t, iso |-> FALSE, day |-> 0, sec |-> 0, tz |-> "", n |-> 0]

StrIso(day, sec, tz) ==
    [kind |-> "str", text |-> "", iso |-> TRUE, day |-> day, sec |-> sec, tz |-> tz, n |-> 0]

IntVal(n) ==
    [kind |-> "int", text |-> "", iso |-> FALSE, day |-> 0, sec |-> 0, tz |-> "", n |-> n]

\* str(v): a string stays, an int becomes the string of its digits.
Str(v) == IF v.kind = "str" THEN v ELSE [v EXCEPT !.kind = "str"]

NoTimezone == "None"

\* The UTC offset, in seconds, of a zone suffix or of a pytz zone name.
KnownZones == {"UTC", "America/Mexico_City"}

UtcOffset(zone) ==
    CASE zone = "Z" -> 0
      [] zone = "UTC" -> 0
      [] zone = "-05:00" -> -18000
      [] zone = "America/Mexico_City" -> -21600
      [] OTHER -> 0

convert_datetime_to_epoch(datetime_str, format_type, timezone_str) ==
    IF ~datetime_str.iso
    THEN datetime_str                \* fromisoformat raises ValueError
    ELSE LET offset ==
                 IF datetime_str.tz # "naive" THEN UtcOffset(datetime_str.tz)
                 ELSE IF timezone_str # NoTimezone /\ timezone_str \in KnownZones
                      THEN UtcOffset(timezone_str)
                      ELSE 0         \* UTC, also for an unknown zone
             epoch_seconds == datetime_str.day * 86400 + datetime_str.sec - offset
         IN  CASE format_type = "epoch_s" -> IntVal(epoch_seconds)
               [] format_type = "epoch_ms" -> IntVal(epoch_seconds * 1000)
               [] OTHER -> datetime_str

\* Mutant of apply_parameter_format: every format converts as epoch_s.
apply_parameter_format_epoch_s(param_value, format_type, timezone_str) ==
    IF param_value.kind = "str"
    THEN convert_datetime_to_epoch(param_value, "epoch_s", timezone_str)
    ELSE param_value

apply_parameter_format(param_value, format_type, timezone_str) ==
    IF format_type \in {"epoch_s", "epoch_ms"} /\ param_value.kind = "str"
    THEN convert_datetime_to_epoch(param_value, format_type, timezone_str)
    ELSE param_value

apply_parameter_formats(payload, param_formats, timezone_str) ==
    IF DOMAIN param_formats = {} THEN payload
    ELSE [k \in DOMAIN payload |->
            IF k \in DOMAIN param_formats
            THEN apply_parameter_format(payload[k], param_formats[k], timezone_str)
            ELSE payload[k]]

(***************************************************************************)
(* EXTERNAL ACTION: data                                                   *)
(***************************************************************************)
\* All functions from a subset of the keys.
PartialFns(Keys, Vals(_)) ==
    UNION {{f \in [S -> UNION {Vals(k) : k \in S}] : \A k \in S : f[k] \in Vals(k)}
            : S \in SUBSET Keys}

ParamNames == {"id", "q", "date"}

ParamValues(k) ==
    CASE k = "id" -> {StrPlain("7")}
      [] k = "q" -> {StrPlain("a b")}
      [] k = "date" -> {StrIso(1, 36000, "Z"), StrIso(1, 36000, "naive"), IntVal(5)}

Payloads == PartialFns(ParamNames, ParamValues)

\* x-parameter-locations: "header" stands for an unrecognised location.
LocationsOf(k) == {"path", "query", "body", "header"}

ParameterLocations == PartialFns(ParamNames, LocationsOf)

\* x-formats, here only ever given for "date".
FormatsOf(k) == {"epoch_s", "epoch_ms", "iso_date"}

ParamFormats == PartialFns({"date"}, FormatsOf)

\* A URL is its pieces in order: literal text, a {name} placeholder, or the
\* text a placeholder was replaced by; then the query string.
Lit(t) == [kind |-> "lit", name |-> t, val |-> StrPlain("")]
Placeholder(name) == [kind |-> "ph", name |-> name, val |-> StrPlain("")]
Substituted(name, v) == [kind |-> "val", name |-> name, val |-> Str(v)]

UrlTemplates ==
    { << Lit("https://x/v1/users") >>,
      << Lit("https://x/v1/users/"), Placeholder("id") >>,
      << Lit("https://x/v1/users/"), Placeholder("id"), Lit("/"), Placeholder("date") >>,
      << Lit("https://x/v1/users/"), Placeholder("id"), Lit("?v=1") >> }

HasQuestionMark(parts) ==
    \E k \in 1..Len(parts) : parts[k].kind = "lit" /\ parts[k].name = "?v=1"

Configs ==
    [url : UrlTemplates, locations : ParameterLocations, formats : ParamFormats,
     timezone : {NoTimezone, "America/Mexico_City"},
     async_execution : BOOLEAN, wait_for_user_message : BOOLEAN]

EmptyFn == [k \in {} |-> StrPlain("")]

NoParts == [done |-> FALSE, path |-> EmptyFn, query |-> EmptyFn, body |-> EmptyFn]

NoUrl == [parts |-> << >>, sep |-> "", query |-> EmptyFn]

NoRequest == [sent |-> FALSE, url |-> NoUrl, body |-> EmptyFn]

NoOutput == [returned |-> FALSE, success |-> FALSE, result |-> "None"]

NoResponse == [received |-> FALSE, success |-> FALSE, result |-> "None"]

\* Mutant of async_response: the fire-and-forget branch reports a failure.
async_response_failure == [received |-> TRUE, success |-> FALSE, result |-> "None"]

\* Lines 164-166: ExternalActionResponse(result={"info": "success"}, success=True)
async_response == [received |-> TRUE, success |-> TRUE, result |-> "info"]

\* What the awaited send_request may return (lines 168-174).
Responses ==
    {[received |-> TRUE, success |-> TRUE, result |-> "result"],
     [received |-> TRUE, success |-> FALSE, result |-> "None"]}

\* Lines 188-198: the ActionOutput run builds from the response.
ActionOutput(response) ==
    [returned |-> TRUE, success |-> response.success, result |-> response.result]

(***************************************************************************)
(* EXTERNAL ACTION: ExecuteExternalAction                                  *)
(***************************************************************************)
Restrict(f, S) == [k \in S |-> f[k]]

\* Mutant of _process_parameters_by_location: an unrecognised location drops
\* the parameter.
process_parameters_dropping(payload, parameter_locations) ==
    LET location(k) == IF k \in DOMAIN parameter_locations
                       THEN parameter_locations[k] ELSE "body"
    IN  [done |-> TRUE,
         path |-> Restrict(payload, {k \in DOMAIN payload : location(k) = "path"}),
         query |-> Restrict(payload, {k \in DOMAIN payload : location(k) = "query"}),
         body |-> Restrict(payload, {k \in DOMAIN payload : location(k) = "body"})]

process_parameters_by_location(payload, parameter_locations) ==
    LET location(k) == IF k \in DOMAIN parameter_locations
                       THEN parameter_locations[k] ELSE "body"
    IN  [done |-> TRUE,
         path |-> Restrict(payload, {k \in DOMAIN payload : location(k) = "path"}),
         query |-> Restrict(payload, {k \in DOMAIN payload : location(k) = "query"}),
         body |-> Restrict(payload, {k \in DOMAIN payload :
                                        location(k) \notin {"path", "query"}})]

\* url.format(**path_params): does it raise KeyError?
FormatRaises(parts, path_params) ==
    \E k \in 1..Len(parts) : parts[k].kind = "ph" /\ parts[k].name \notin DOMAIN path_params

FormatUrl(parts, path_params) ==
    [k \in 1..Len(parts) |->
        IF parts[k].kind = "ph"
        THEN Substituted(parts[k].name, path_params[parts[k].name])
        ELSE parts[k]]

\* _build_request_url: [raised, url]
build_request_url(template, path_params, query_params) ==
    IF DOMAIN path_params # {} /\ FormatRaises(template, path_params)
    THEN [raised |-> TRUE, url |-> NoUrl]
    ELSE LET parts == IF DOMAIN path_params # {}
                      THEN FormatUrl(template, path_params) ELSE template
         IN  [raised |-> FALSE,
              url |-> IF DOMAIN query_params # {}
                      THEN [parts |-> parts,
                            sep |-> IF HasQuestionMark(parts) THEN "&" ELSE "?",
                            query |-> [k \in DOMAIN query_params |-> Str(query_params[k])]]
                      ELSE [parts |-> parts, sep |-> "", query |-> EmptyFn]]

ActInit ==
    /\ act_pc = "idle"
    /\ act_cfg = CHOOSE c \in Configs : TRUE
    /\ act_payload = EmptyFn
    /\ act_parts = NoParts
    /\ act_request = NoRequest
    /\ act_calls = << >>
    /\ act_output = NoOutput
    /\ act_task = "none"
    /\ act_response = NoResponse

\* Lines 183-184 up to the first await of send_external_action_request:
\* mute_agent(), the partition, the URL, and the request is handed over.
MuteAndSend(cfg, payload, calls) ==
    LET parts == process_parameters_by_location(payload, cfg.locations)
        built == build_request_url(cfg.url, parts.path, parts.query)
        request == [sent |-> TRUE, url |-> built.url, body |-> parts.body]
    IN  /\ act_parts' = parts
        /\ IF built.raised
           THEN /\ act_pc' = "raised"
                /\ act_calls' = calls \o <<"mute_agent">>
                /\ UNCHANGED <<act_request, act_output, act_task, act_response>>
           ELSE IF cfg.async_execution
           THEN \* create_task, the fixed response, unmute_agent(), return
                /\ act_pc' = "returned"
                /\ act_calls' = calls \o <<"mute_agent", "create_task", "unmute_agent">>
                /\ act_request' = request
                /\ act_task' = "pending"
                /\ act_response' = async_response
                /\ act_output' = ActionOutput(async_response)
           ELSE /\ act_pc' = "request"
                /\ act_calls' = calls \o <<"mute_agent", "send_request">>
                /\ act_request' = request
                /\ UNCHANGED <<act_output, act_task, act_response>>

\* Mutant of RunWaits: the agent is muted before the tracker is awaited.
RunWaitsMuted ==
    /\ UNCHANGED not_act_vars
    /\ act_pc = "idle"
    /\ \E cfg \in Configs, payload \in Payloads :
          /\ cfg.wait_for_user_message
          /\ act_cfg' = cfg
          /\ act_payload' = payload
    /\ act_pc' = "wait"
    /\ act_calls' = <<"mute_agent", "tracker.wait">>
    /\ UNCHANGED <<act_parts, act_request, act_output, act_task, act_response>>

\* run is called; with a user message tracker it first awaits the tracker
\* (lines 180-181; should_respond is "always" or "never", line 62, and
\* either passes the test of line 180).
RunWaits ==
    /\ UNCHANGED not_act_vars
    /\ act_pc = "idle"
    /\ \E cfg \in Configs, payload \in Payloads :
          /\ cfg.wait_for_user_message
          /\ act_cfg' = cfg
          /\ act_payload' = payload
    /\ act_pc' = "wait"
    /\ act_calls' = <<"tracker.wait">>
    /\ UNCHANGED <<act_parts, act_request, act_output, act_task, act_response>>

\* The tracker is set: lines 183-184.
TrackerSet ==
    /\ UNCHANGED not_act_vars
    /\ act_pc = "wait"
    /\ MuteAndSend(act_cfg, act_payload, act_calls)
    /\ UNCHANGED <<act_cfg, act_payload>>

\* run is called and has nothing to wait for: lines 183-184.
RunStarts ==
    /\ UNCHANGED not_act_vars
    /\ act_pc = "idle"
    /\ \E cfg \in Configs, payload \in Payloads :
          /\ ~cfg.wait_for_user_message
          /\ act_cfg' = cfg
          /\ act_payload' = payload
          /\ MuteAndSend(cfg, payload, << >>)

\* The awaited send_request returns a response: lines 184-198.
RequestReturns ==
    /\ UNCHANGED not_act_vars
    /\ act_pc = "request"
    /\ \E response \in Responses :
          /\ act_response' = response
          /\ act_output' = ActionOutput(response)
    /\ act_calls' = Append(act_calls, "unmute_agent")
    /\ act_pc' = "returned"
    /\ UNCHANGED <<act_cfg, act_payload, act_parts, act_request, act_task>>

\* The fire-and-forget task ends, after run went on.
TaskEnds ==
    /\ UNCHANGED not_act_vars
    /\ act_task = "pending"
    /\ \E outcome \in {"ok", "failed"} : act_task' = outcome
    /\ UNCHANGED <<act_pc, act_cfg, act_payload, act_parts, act_request, act_calls,
                   act_output, act_response>>

ActNext ==
    \/ RunWaits
    \/ TrackerSet
    \/ RunStarts
    \/ RequestReturns
    \/ TaskEnds

(***************************************************************************)
(* EXTERNAL ACTION: properties                                             *)
(***************************************************************************)
RunEnded == act_pc \in {"returned", "raised"}

Positions(calls, name) == {k \in 1..Len(calls) : calls[k] = name}

\* C5 (as claimed): a run that called mute_agent() has called unmute_agent()
\* after it by the time it ends, whether the request succeeded, returned
\* success=false, or could not be built or sent.
C5_MuteThenUnmute ==
    RunEnded =>
        \A m \in Positions(act_calls, "mute_agent") :
            \E u \in Positions(act_calls, "unmute_agent") : m < u

\* C6: _process_parameters_by_location partitions the payload: every key of
\* the payload is in exactly one of path, query and body, with its value, in
\* the set its x-parameter-locations entry names, and in body when it has no
\* entry or an unrecognised one; nothing else is in any of the three.
C6_Partition ==
    act_parts.done =>
        LET path == act_parts.path
            query == act_parts.query
            body == act_parts.body
            locs == act_cfg.locations
        IN  /\ DOMAIN path \cup DOMAIN query \cup DOMAIN body = DOMAIN act_payload
            /\ DOMAIN path \cap DOMAIN query = {}
            /\ DOMAIN path \cap DOMAIN body = {}
            /\ DOMAIN query \cap DOMAIN body = {}
            /\ \A k \in DOMAIN path : path[k] = act_payload[k]
            /\ \A k \in DOMAIN query : query[k] = act_payload[k]
            /\ \A k \in DOMAIN body : body[k] = act_payload[k]
            /\ \A k \in DOMAIN act_payload :
                  /\ k \in DOMAIN path <=> (k \in DOMAIN locs /\ locs[k] = "path")
                  /\ k \in DOMAIN query <=> (k \in DOMAIN locs /\ locs[k] = "query")
                  /\ k \in DOMAIN body <=>
                        (k \notin DOMAIN locs \/ locs[k] \notin {"path", "query"})

\* C6 witness: a payload was partitioned into a path, a query and a body
\* parameter, the body one having an unrecognised location.
C6_Witness ==
    /\ act_parts.done
    /\ DOMAIN act_parts.path # {}
    /\ DOMAIN act_parts.query # {}
    /\ \E k \in DOMAIN act_parts.body :
          k \in DOMAIN act_cfg.locations /\ act_cfg.locations[k] = "header"

\* C7 (as claimed): a dispatched request has a URL without any {name}
\* placeholder left; otherwise nothing is dispatched and the action fails.
C7_PlaceholdersSubstituted ==
    /\ act_request.sent =>
          \A k \in 1..Len(act_request.url.parts) : act_request.url.parts[k].kind # "ph"
    /\ act_pc = "raised" => ~act_request.sent

\* C8 (as claimed): for a key listed in x-formats, the value that reaches the
\* URL path, the query string or the body of the dispatched request is the
\* formatted value.
C8_FormatsApplied ==
    act_request.sent =>
        \A k \in DOMAIN act_payload \cap DOMAIN act_cfg.formats :
            LET formatted == apply_parameter_format(act_payload[k], act_cfg.formats[k],
                                                    act_cfg.timezone)
                url == act_request.url
            IN  /\ \A i \in 1..Len(url.parts) :
                      (url.parts[i].kind = "val" /\ url.parts[i].name = k)
                          => url.parts[i].val = Str(formatted)
                /\ k \in DOMAIN url.query => url.query[k] = Str(formatted)
                /\ k \in DOMAIN act_request.body => act_request.body[k] = formatted

\* C17: with async_execution the request is handed to a task and run has
\* at once the fixed response {success: true, result: {info: "success"}},
\* which stays its result whether the task is pending, has succeeded or has
\* failed; without async_execution run has no result while the request is
\* awaited, and its result is the response the request returned.
C17_AsyncResponse ==
    /\ (act_cfg.async_execution /\ act_request.sent) =>
          /\ act_task \in {"pending", "ok", "failed"}
          /\ act_pc = "returned"
          /\ act_response = [received |-> TRUE, success |-> TRUE, result |-> "info"]
          /\ act_output = [returned |-> TRUE, success |-> TRUE, result |-> "info"]
    /\ (~act_cfg.async_execution /\ act_request.sent) =>
          /\ act_task = "none"
          /\ act_pc = "request" => (~act_output.returned /\ ~act_response.received)
          /\ act_pc = "returned" =>
                /\ act_response \in Responses
                /\ act_output.success = act_response.success
                /\ act_output.result = act_response.result

IsPrefix(a, b) == Len(a) <= Len(b) /\ SubSeq(b, 1, Len(a)) = a

\* C32: a run whose input carries a user message tracker awaits the tracker
\* first; while it waits the agent is not muted and no request is made; what
\* it calls then is, in this order, mute_agent, the request, unmute_agent;
\* and a run that has returned has made all four calls.
C32_WaitMuteRequestUnmute ==
    (act_cfg.wait_for_user_message /\ act_pc # "idle") =>
        /\ \/ IsPrefix(act_calls,
                       <<"tracker.wait", "mute_agent", "send_request", "unmute_agent">>)
           \/ IsPrefix(act_calls,
                       <<"tracker.wait", "mute_agent", "create_task", "unmute_agent">>)
        /\ act_calls # << >>
        /\ act_pc = "wait" =>
              /\ act_calls = <<"tracker.wait">>
              /\ ~act_request.sent
              /\ ~act_parts.done
        /\ act_request.sent => Len(act_calls) >= 3
        /\ act_pc = "returned" => Len(act_calls) = 4

\* C32 witness: the tracker was awaited, then the agent muted, the request
\* sent and awaited, and the agent unmuted.
C32_Witness ==
    /\ act_cfg.wait_for_user_message
    /\ ~act_cfg.async_execution
    /\ act_pc = "returned"
    /\ act_request.sent
    /\ act_calls = <<"tracker.wait", "mute_agent", "send_request", "unmute_agent">>

\* The names the placeholders of the dispatched URL were replaced for.
SubstitutedNames(parts) ==
    {parts[k].name : k \in {k \in 1..Len(parts) : parts[k].kind = "val"}}

\* C40 (as claimed): every key of the payload is carried by the dispatched
\* request: a path-located key by a substituted placeholder of the URL, a
\* query-located key by the query string, every other key by the body.
C40_EveryKeyCarried ==
    act_request.sent =>
        \A k \in DOMAIN act_payload :
            LET location == IF k \in DOMAIN act_cfg.locations
                            THEN act_cfg.locations[k] ELSE "body"
            IN  CASE location = "path" ->
                       k \in SubstitutedNames(act_request.url.parts)
                  [] location = "query" ->
                       /\ k \in DOMAIN act_request.url.query
                       /\ act_request.url.query[k] = Str(act_payload[k])
                  [] OTHER ->
                       /\ k \in DOMAIN act_request.body
                       /\ act_request.body[k] = act_payload[k]

\* C17 witness: the fire-and-forget request failed after run had returned
\* the fixed response.
C17_Witness ==
    /\ act_cfg.async_execution
    /\ act_task = "failed"
    /\ act_pc = "returned"
    /\ act_output.success

(***************************************************************************)
(* AUDIO CACHE: data                                                       *)
(***************************************************************************)
\* self.default_ttl, seconds
default_ttl == 14400

\* self.language_max_cache_size, in units of 512 MiB scaled to 2 bytes: "es"
\* has three times the budget of two, "default" two.  ("en", "pt" and "fr"
\* have the budget of "default" and are left out.)
language_max_cache_size == [es |-> 3, default |-> 2]

\* "xx" and "yy" are languages without a budget of their own.
Languages == {"es", "xx", "yy"}

\* get_audio_key, for the one voice identifier "v".
AudioKeys == {<<"es", "t1">>, <<"es", "t2">>, <<"xx", "t1">>, <<"yy", "t1">>}
get_audio_key(language, text) == <<language, text>>

\* get_size_key / get_cache_info_key: the bucket of a language.
get_size_key(language) ==
    IF language \in DOMAIN language_max_cache_size THEN language ELSE "default"

get_max_cache_size(language) ==
    IF language \in DOMAIN language_max_cache_size
    THEN language_max_cache_size[language]
    ELSE language_max_cache_size["default"]

\* audio_key.split(":")[1]
LanguageOfKey(audio_key) == audio_key[1]

\* The audio byte strings: "a" repeated up to MaxAudioLen times (b"" too), and "b".
Audios == UNION {[1..n -> {"a"}] : n \in 0..MaxAudioLen} \cup {<<"b">>}

NoTtl == -1
Ttls == {NoTtl, 60}

NoData == [present |-> FALSE, bytes |-> << >>, ttl |-> NoTtl]

\* A metadata field that is not in the hash is -1 (popularity: 0).
NoInfo == [last_access |-> -1, popularity |-> 0, size |-> -1]

Callers == {"w1"}

\* The tasks that call the cache concurrently (calls of different
\* conversations share the singleton).
Writers == {"w1", "w2"}

NoLocal ==
    [op |-> "none", language |-> "es", text |-> "t1", audio |-> << >>, ttl |-> NoTtl,
     existing_size |-> 0, returned |-> << >>, hit |-> FALSE,
     \* what the store held when the call began (not read by the code)
     counter_before |-> 0, recorded_before |-> -1]

(***************************************************************************)
(* AUDIO CACHE: the redis commands                                         *)
(***************************************************************************)
\* Mutant of hset_last_access: the popularity is reset with the access time.
hset_last_access_reset(info, audio_key, current_time) ==
    [info EXCEPT ![audio_key].last_access = current_time, ![audio_key].popularity = 0]

\* hset(cache_info_key, f"{audio_key}:last_access", current_time)
hset_last_access(info, audio_key, current_time) ==
    [info EXCEPT ![audio_key].last_access = current_time]

\* hincrby(cache_info_key, f"{audio_key}:popularity", 1)
hincrby_popularity(info, audio_key) ==
    [info EXCEPT ![audio_key].popularity = @ + 1]

\* hset(cache_info_key, f"{audio_key}:size", size)
hset_size(info, audio_key, size) ==
    [info EXCEPT ![audio_key].size = size]

(***************************************************************************)
(* AUDIO CACHE: actions                                                    *)
(***************************************************************************)
\* The local audio_key of a caller's get_audio / set_audio.
CallKey(p) == get_audio_key(cache_local[p].language, cache_local[p].text)

\* The state safe_create leaves: the store answered (counters at 0, no
\* metadata) or it did not (disabled).
CacheInit ==
    /\ cache_disabled \in BOOLEAN
    /\ cache_time = 0
    /\ redis_data = [k \in AudioKeys |-> NoData]
    /\ redis_size = [b \in DOMAIN language_max_cache_size |-> 0]
    /\ redis_info = [k \in AudioKeys |-> NoInfo]
    /\ cache_pc = [p \in Writers |-> "idle"]
    /\ cache_local = [p \in Writers |-> NoLocal]
    /\ cache_calls = 0

CacheTick ==
    /\ UNCHANGED not_cache_vars
    /\ cache_time < MaxCacheTime
    /\ cache_time' = cache_time + 1
    /\ UNCHANGED <<cache_disabled, redis_data, redis_size, redis_info, cache_pc,
                   cache_local, cache_calls>>

\* get_audio, lines 62-72 up to the return or the first hset.
GetAudio(p) ==
    /\ UNCHANGED not_cache_vars
    /\ cache_pc[p] = "idle"
    /\ cache_calls < MaxCalls
    /\ cache_calls' = cache_calls + 1
    /\ \E audio_key \in AudioKeys :
          LET language == audio_key[1]
              text == audio_key[2]
              audio_data == redis_data[audio_key]
              hit == ~cache_disabled /\ audio_data.present /\ audio_data.bytes # << >>
          IN  /\ cache_local' = [cache_local EXCEPT ![p] =
                    IF hit
                    THEN [NoLocal EXCEPT !.op = "get_audio", !.language = language,
                                         !.text = text, !.hit = TRUE,
                                         !.returned = audio_data.bytes]
                    ELSE NoLocal]
              /\ cache_pc' = [cache_pc EXCEPT ![p] = IF hit THEN "hset_access" ELSE "idle"]
    /\ UNCHANGED <<cache_disabled, cache_time, redis_data, redis_size, redis_info>>

\* set_audio, lines 82-92: the call and the hget of the recorded size.
SetAudio(p) ==
    /\ UNCHANGED not_cache_vars
    /\ cache_pc[p] = "idle"
    /\ cache_calls < MaxCalls
    /\ cache_calls' = cache_calls + 1
    /\ \E audio_key \in AudioKeys, audio \in Audios, ttl \in Ttls :
          LET language == audio_key[1]
              text == audio_key[2]
              existing == redis_info[audio_key].size
          IN  /\ cache_local' = [cache_local EXCEPT ![p] =
                    IF cache_disabled THEN NoLocal
                    ELSE [NoLocal EXCEPT !.op = "set_audio", !.language = language,
                                         !.text = text, !.audio = audio, !.ttl = ttl,
                                         !.existing_size =
                                             IF existing # -1 THEN existing ELSE 0,
                                         !.counter_before =
                                             redis_size[get_size_key(language)],
                                         !.recorded_before = existing]]
              /\ cache_pc' = [cache_pc EXCEPT ![p] =
                    IF cache_disabled THEN "idle"
                    ELSE IF existing # -1 THEN "decrby" ELSE "ensure"]
    /\ UNCHANGED <<cache_disabled, cache_time, redis_data, redis_size, redis_info>>

\* Mutant of SetDecrby: the recorded size is not taken off the counter.
SetDecrbySkipped(p) ==
    /\ UNCHANGED not_cache_vars
    /\ cache_pc[p] = "decrby"
    /\ cache_pc' = [cache_pc EXCEPT ![p] = "ensure"]
    /\ UNCHANGED <<cache_disabled, cache_time, redis_data, redis_size, redis_info,
                   cache_local, cache_calls>>

\* Line 95: decrby(size_key, existing_size).
SetDecrby(p) ==
    /\ UNCHANGED not_cache_vars
    /\ cache_pc[p] = "decrby"
    /\ redis_size' = [redis_size EXCEPT ![get_size_key(cache_local[p].language)] =
                         @ - cache_local[p].existing_size]
    /\ cache_pc' = [cache_pc EXCEPT ![p] = "ensure"]
    /\ UNCHANGED <<cache_disabled, cache_time, redis_data, redis_info, cache_local,
                   cache_calls>>

\* ensure_cache_size, lines 136-144: the counter is read, the overflow is
\* logged, nothing is evicted.  set_audio goes on to line 100.
EnsureCacheSize(p) ==
    /\ UNCHANGED not_cache_vars
    /\ cache_pc[p] = "ensure"
    /\ IF cache_local[p].op = "set_audio"
       THEN /\ cache_pc' = [cache_pc EXCEPT ![p] = "set"]
            /\ UNCHANGED cache_local
       ELSE /\ cache_pc' = [cache_pc EXCEPT ![p] = "idle"]
            /\ cache_local' = [cache_local EXCEPT ![p] = NoLocal]
    /\ UNCHANGED <<cache_disabled, cache_time, redis_data, redis_size, redis_info,
                   cache_calls>>

\* Line 100: set(audio_key, audio); SET clears the key's TTL.
SetStore(p) ==
    /\ UNCHANGED not_cache_vars
    /\ cache_pc[p] = "set"
    /\ redis_data' = [redis_data EXCEPT
          ![CallKey(p)] =
              [present |-> TRUE, bytes |-> cache_local[p].audio, ttl |-> NoTtl]]
    /\ cache_pc' = [cache_pc EXCEPT ![p] = "expire"]
    /\ UNCHANGED <<cache_disabled, cache_time, redis_size, redis_info, cache_local,
                   cache_calls>>

\* Lines 102-103: expire(audio_key, actual_ttl), on a key that is still there.
SetExpire(p) ==
    /\ UNCHANGED not_cache_vars
    /\ cache_pc[p] = "expire"
    /\ LET audio_key == CallKey(p)
           actual_ttl == IF cache_local[p].ttl # NoTtl THEN cache_local[p].ttl
                         ELSE default_ttl
       IN  redis_data' = IF redis_data[audio_key].present
                         THEN [redis_data EXCEPT ![audio_key].ttl = actual_ttl]
                         ELSE redis_data
    /\ cache_pc' = [cache_pc EXCEPT ![p] = "hset_access"]
    /\ UNCHANGED <<cache_disabled, cache_time, redis_size, redis_info, cache_local,
                   cache_calls>>

\* update_access_time, line 119, for get_audio and set_audio alike.
UpdateAccessTime(p) ==
    /\ UNCHANGED not_cache_vars
    /\ cache_pc[p] = "hset_access"
    /\ redis_info' = hset_last_access(redis_info,
                        CallKey(p),
                        cache_time)
    /\ cache_pc' = [cache_pc EXCEPT ![p] = "hincrby"]
    /\ UNCHANGED <<cache_disabled, cache_time, redis_data, redis_size, cache_local,
                   cache_calls>>

\* update_access_time, line 120; get_audio returns after it.
UpdatePopularity(p) ==
    /\ UNCHANGED not_cache_vars
    /\ cache_pc[p] = "hincrby"
    /\ redis_info' = hincrby_popularity(redis_info,
                        CallKey(p))
    /\ IF cache_local[p].op = "set_audio"
       THEN /\ cache_pc' = [cache_pc EXCEPT ![p] = "hset_size"]
            /\ UNCHANGED cache_local
       ELSE /\ cache_pc' = [cache_pc EXCEPT ![p] = "idle"]
            /\ cache_local' = [cache_local EXCEPT ![p] = NoLocal]
    /\ UNCHANGED <<cache_disabled, cache_time, redis_data, redis_size, cache_calls>>

\* update_cache_size, line 133.
UpdateSizeField(p) ==
    /\ UNCHANGED not_cache_vars
    /\ cache_pc[p] = "hset_size"
    /\ redis_info' = hset_size(redis_info,
                        CallKey(p),
                        Len(cache_local[p].audio))
    /\ cache_pc' = [cache_pc EXCEPT ![p] = "incrby"]
    /\ UNCHANGED <<cache_disabled, cache_time, redis_data, redis_size, cache_local,
                   cache_calls>>

\* update_cache_size, line 134; set_audio returns after it.
UpdateSizeCounter(p) ==
    /\ UNCHANGED not_cache_vars
    /\ cache_pc[p] = "incrby"
    /\ redis_size' = [redis_size EXCEPT ![get_size_key(LanguageOfKey(CallKey(p)))] =
                         @ + Len(cache_local[p].audio)]
    /\ cache_pc' = [cache_pc EXCEPT ![p] = "idle"]
    /\ cache_local' = [cache_local EXCEPT ![p] = NoLocal]
    /\ UNCHANGED <<cache_disabled, cache_time, redis_data, redis_info, cache_calls>>

CacheNext ==
    \/ CacheTick
    \/ \E p \in Callers :
          \/ GetAudio(p)
          \/ SetAudio(p)
          \/ SetDecrby(p)
          \/ EnsureCacheSize(p)
          \/ SetStore(p)
          \/ SetExpire(p)
          \/ UpdateAccessTime(p)
          \/ UpdatePopularity(p)
          \/ UpdateSizeField(p)
          \/ UpdateSizeCounter(p)

(***************************************************************************)
(* AUDIO CACHE: clear_cache and the helpers called on their own            *)
(***************************************************************************)
\* clear_cache, lines 148-151: the disabled check, then keys(pattern).
ClearCache(p) ==
    /\ UNCHANGED not_cache_vars
    /\ cache_pc[p] = "idle"
    /\ cache_calls < MaxCalls
    /\ cache_calls' = cache_calls + 1
    /\ \E language \in Languages :
          /\ cache_local' = [cache_local EXCEPT ![p] =
                IF cache_disabled THEN NoLocal
                ELSE [NoLocal EXCEPT !.op = "clear_cache", !.language = language]]
          /\ cache_pc' = [cache_pc EXCEPT ![p] =
                IF cache_disabled THEN "idle" ELSE "clear_delete"]
    /\ UNCHANGED <<cache_disabled, cache_time, redis_data, redis_size, redis_info>>

\* Lines 151-153: the data keys under f"audio_cache:{language}:*" are deleted.
ClearDelete(p) ==
    /\ UNCHANGED not_cache_vars
    /\ cache_pc[p] = "clear_delete"
    /\ redis_data' = [k \in AudioKeys |->
          IF LanguageOfKey(k) = cache_local[p].language THEN NoData ELSE redis_data[k]]
    /\ cache_pc' = [cache_pc EXCEPT ![p] = "clear_size"]
    /\ UNCHANGED <<cache_disabled, cache_time, redis_size, redis_info, cache_local,
                   cache_calls>>

\* Line 155: set(size_key, 0).
ClearSize(p) ==
    /\ UNCHANGED not_cache_vars
    /\ cache_pc[p] = "clear_size"
    /\ redis_size' = [redis_size EXCEPT ![get_size_key(cache_local[p].language)] = 0]
    /\ cache_pc' = [cache_pc EXCEPT ![p] = "clear_info"]
    /\ UNCHANGED <<cache_disabled, cache_time, redis_data, redis_info, cache_local,
                   cache_calls>>

\* Line 156: delete(cache_info_key): every field of the language's hash goes.
ClearInfo(p) ==
    /\ UNCHANGED not_cache_vars
    /\ cache_pc[p] = "clear_info"
    /\ redis_info' = [k \in AudioKeys |->
          IF get_size_key(LanguageOfKey(k)) = get_size_key(cache_local[p].language)
          THEN NoInfo ELSE redis_info[k]]
    /\ cache_pc' = [cache_pc EXCEPT ![p] = "idle"]
    /\ cache_local' = [cache_local EXCEPT ![p] = NoLocal]
    /\ UNCHANGED <<cache_disabled, cache_time, redis_data, redis_size, cache_calls>>

\* update_access_time called on its own, lines 108-117: no disabled check.
CallUpdateAccessTime(p) ==
    /\ UNCHANGED not_cache_vars
    /\ cache_pc[p] = "idle"
    /\ cache_calls < MaxCalls
    /\ cache_calls' = cache_calls + 1
    /\ \E audio_key \in AudioKeys :
          cache_local' = [cache_local EXCEPT ![p] =
              [NoLocal EXCEPT !.op = "update_access_time",
                              !.language = audio_key[1], !.text = audio_key[2]]]
    /\ cache_pc' = [cache_pc EXCEPT ![p] = "hset_access"]
    /\ UNCHANGED <<cache_disabled, cache_time, redis_data, redis_size, redis_info>>

\* update_cache_size called on its own, lines 122-131: no disabled check.
CallUpdateCacheSize(p) ==
    /\ UNCHANGED not_cache_vars
    /\ cache_pc[p] = "idle"
    /\ cache_calls < MaxCalls
    /\ cache_calls' = cache_calls + 1
    /\ \E audio_key \in AudioKeys, audio \in Audios :
          cache_local' = [cache_local EXCEPT ![p] =
              [NoLocal EXCEPT !.op = "update_cache_size", !.language = audio_key[1],
                              !.text = audio_key[2], !.audio = audio]]
    /\ cache_pc' = [cache_pc EXCEPT ![p] = "hset_size"]
    /\ UNCHANGED <<cache_disabled, cache_time, redis_data, redis_size, redis_info>>

\* ensure_cache_size called on its own, lines 136-138: no disabled check.
CallEnsureCacheSize(p) ==
    /\ UNCHANGED not_cache_vars
    /\ cache_pc[p] = "idle"
    /\ cache_calls < MaxCalls
    /\ cache_calls' = cache_calls + 1
    /\ \E language \in Languages, audio \in Audios :
          cache_local' = [cache_local EXCEPT ![p] =
              [NoLocal EXCEPT !.op = "ensure_cache_size", !.language = language,
                              !.audio = audio]]
    /\ cache_pc' = [cache_pc EXCEPT ![p] = "ensure"]
    /\ UNCHANGED <<cache_disabled, cache_time, redis_data, redis_size, redis_info>>

\* Every public method of AudioCache, called by one task.
CacheOpsNext ==
    \/ CacheTick
    \/ \E p \in Callers :
          \/ GetAudio(p)
          \/ SetAudio(p)
          \/ SetDecrby(p)
          \/ EnsureCacheSize(p)
          \/ SetStore(p)
          \/ SetExpire(p)
          \/ UpdateAccessTime(p)
          \/ UpdatePopularity(p)
          \/ UpdateSizeField(p)
          \/ UpdateSizeCounter(p)
          \/ ClearCache(p)
          \/ ClearDelete(p)
          \/ ClearSize(p)
          \/ ClearInfo(p)
          \/ CallUpdateAccessTime(p)
          \/ CallUpdateCacheSize(p)
          \/ CallEnsureCacheSize(p)

\* set_audio and clear_cache, called by one task, one call after the other.
SetClearNext ==
    \E p \in Callers :
        \/ SetAudio(p)
        \/ SetDecrby(p)
        \/ EnsureCacheSize(p)
        \/ SetStore(p)
        \/ SetExpire(p)
        \/ UpdateAccessTime(p)
        \/ UpdatePopularity(p)
        \/ UpdateSizeField(p)
        \/ UpdateSizeCounter(p)
        \/ ClearCache(p)
        \/ ClearDelete(p)
        \/ ClearSize(p)
        \/ ClearInfo(p)

\* set_audio called by several tasks at once; every await is a point where
\* another task runs.
WritersNext ==
    \E p \in Writers :
        \/ SetAudio(p)
        \/ SetDecrby(p)
        \/ EnsureCacheSize(p)
        \/ SetStore(p)
        \/ SetExpire(p)
        \/ UpdateAccessTime(p)
        \/ UpdatePopularity(p)
        \/ UpdateSizeField(p)
        \/ UpdateSizeCounter(p)

(***************************************************************************)
(* AUDIO CACHE: properties                                                 *)
(***************************************************************************)
RECURSIVE SumOver(_, _)
SumOver(S, f) ==
    IF S = {} THEN 0
    ELSE LET x == CHOOSE x \in S : TRUE IN f[x] + SumOver(S \ {x}, f)

\* The bytes stored under the data keys of a language.
StoredBytes(language) ==
    SumOver({k \in AudioKeys : k[1] = language /\ redis_data[k].present},
            [k \in AudioKeys |-> Len(redis_data[k].bytes)])

CacheQuiet == \A p \in Callers : cache_pc[p] = "idle"

\* The bytes stored under the data keys of the languages of a bucket.
BucketBytes(bucket) ==
    SumOver({k \in AudioKeys : get_size_key(k[1]) = bucket /\ redis_data[k].present},
            [k \in AudioKeys |-> Len(redis_data[k].bytes)])

\* C36 (as claimed): when the set_audio and clear_cache calls made one after
\* the other have returned, each size counter is the number of bytes stored
\* for the languages that share it.
C36_CounterIsStoredBytes ==
    CacheQuiet =>
        \A bucket \in DOMAIN language_max_cache_size :
            redis_size[bucket] = BucketBytes(bucket)

\* C9 (as claimed): on an enabled cache that started empty, once the set_audio
\* calls made so far have returned, neither the bytes stored for a language
\* nor the language's size counter exceed the language's maximum.
C9_WithinBudget ==
    (~cache_disabled /\ CacheQuiet) =>
        \A language \in Languages :
            /\ StoredBytes(language) <= get_max_cache_size(language)
            /\ redis_size[get_size_key(language)] <= get_max_cache_size(language)

InfoElsewhereSame(k) ==
    \A other \in AudioKeys \ {k} : redis_info'[other] = redis_info[other]

\* C10: a get_audio that hits returns the stored bytes, sets last_access of
\* its key to the current time, which is not below the old value, and adds
\* exactly 1 to its popularity; the stored bytes, the size field and the size
\* counters stay as they are.
C10_HitTouch ==
    [][\A p \in Callers :
          /\ (cache_pc[p] = "idle" /\ cache_pc'[p] = "hset_access"
                 /\ cache_local'[p].op = "get_audio") =>
                /\ cache_local'[p].returned = redis_data[CallKey(p)'].bytes
                /\ redis_data[CallKey(p)'].present
                /\ redis_info' = redis_info
                /\ redis_data' = redis_data
                /\ redis_size' = redis_size
          /\ (cache_local[p].op = "get_audio" /\ cache_pc[p] = "hset_access"
                 /\ cache_pc'[p] = "hincrby") =>
                /\ redis_info'[CallKey(p)].last_access = cache_time
                /\ redis_info'[CallKey(p)].last_access >= redis_info[CallKey(p)].last_access
                /\ redis_info'[CallKey(p)].popularity = redis_info[CallKey(p)].popularity
                /\ redis_info'[CallKey(p)].size = redis_info[CallKey(p)].size
                /\ InfoElsewhereSame(CallKey(p))
                /\ redis_data' = redis_data
                /\ redis_size' = redis_size
          /\ (cache_local[p].op = "get_audio" /\ cache_pc[p] = "hincrby"
                 /\ cache_pc'[p] = "idle") =>
                /\ redis_info'[CallKey(p)].popularity
                      = redis_info[CallKey(p)].popularity + 1
                /\ redis_info'[CallKey(p)].last_access = redis_info[CallKey(p)].last_access
                /\ redis_info'[CallKey(p)].size = redis_info[CallKey(p)].size
                /\ InfoElsewhereSame(CallKey(p))
                /\ redis_data' = redis_data
                /\ redis_size' = redis_size
      ]_vars

\* C11 (as claimed): on a cache that safe_create marked disabled no caller
\* ever stands at a command for the backing store (a caller that is not idle
\* stands at one), no get_audio reports a hit, and the store keeps the
\* contents it had.
C11_DisabledNoOp ==
    cache_disabled =>
        /\ \A p \in Writers : cache_pc[p] = "idle" /\ ~cache_local[p].hit
        /\ redis_data = [k \in AudioKeys |-> NoData]
        /\ redis_size = [b \in DOMAIN language_max_cache_size |-> 0]
        /\ redis_info = [k \in AudioKeys |-> NoInfo]

\* The size fields recorded in the metadata of a language bucket, summed.
RecordedSize(bucket) ==
    SumOver({k \in AudioKeys : get_size_key(LanguageOfKey(k)) = bucket
                                 /\ redis_info[k].size # -1},
            [k \in AudioKeys |-> redis_info[k].size])

\* What one writer may have in flight in a bucket: the larger of the entry
\* it writes and the entry it replaces.
InFlightSize(p, bucket) ==
    IF cache_pc[p] # "idle" /\ get_size_key(cache_local[p].language) = bucket
    THEN Max2(Len(cache_local[p].audio), cache_local[p].existing_size)
    ELSE 0

Abs(n) == IF n >= 0 THEN n ELSE 0 - n

\* C12 (as claimed): the size counter of a language differs from the sum of
\* the recorded size fields by at most one in-flight entry per writer, and by
\* nothing when no set_audio is in flight.
C12_BoundedDrift ==
    \A bucket \in DOMAIN language_max_cache_size :
        Abs(redis_size[bucket] - RecordedSize(bucket))
            <= SumOver(Writers, [p \in Writers |-> InFlightSize(p, bucket)])

\* C10 witness: a get_audio hit, later than the entry's set_audio, has
\* written the access time and is about to count the access.
\* C30: when a set_audio of a single caller returns, on a key that had a
\* recorded size s_old when it was called, the counter of the language is
\* the counter at the call plus s_new - s_old, the data key holds the new
\* bytes, the recorded size is s_new, and the key's TTL is the given ttl,
\* or default_ttl (four hours) when none was given.
C30_OverwriteAdjusts ==
    [][\A p \in Callers :
          (/\ cache_pc[p] = "incrby"
           /\ cache_pc'[p] = "idle"
           /\ cache_local[p].op = "set_audio"
           /\ cache_local[p].recorded_before # -1) =>
              LET audio_key == CallKey(p)
                  bucket == get_size_key(cache_local[p].language)
                  s_new == Len(cache_local[p].audio)
                  s_old == cache_local[p].recorded_before
              IN  /\ redis_size'[bucket] = cache_local[p].counter_before + s_new - s_old
                  /\ redis_data'[audio_key].present
                  /\ redis_data'[audio_key].bytes = cache_local[p].audio
                  /\ redis_info'[audio_key].size = s_new
                  /\ redis_data'[audio_key].ttl =
                        IF cache_local[p].ttl = NoTtl THEN 4 * 60 * 60
                        ELSE cache_local[p].ttl]_vars

\* C30 witness: a key with two bytes recorded has been overwritten with
\* one byte; the counter went from 2 to 1.
C30_Witness ==
    \E p \in Callers :
        /\ cache_pc[p] = "incrby"
        /\ cache_local[p].op = "set_audio"
        /\ cache_local[p].recorded_before = 2
        /\ cache_local[p].counter_before = 2
        /\ Len(cache_local[p].audio) = 1
        /\ redis_size[get_size_key(cache_local[p].language)] = 0
        /\ redis_info[CallKey(p)].size = 1

C10_Witness ==
    \E p \in Callers :
        /\ cache_local[p].op = "get_audio"
        /\ cache_local[p].hit
        /\ cache_pc[p] = "hincrby"
        /\ cache_time > 0
        /\ redis_info[CallKey(p)].last_access = cache_time
        /\ redis_info[CallKey(p)].popularity = 1

(***************************************************************************)
(* TOKEN STREAM: openai_get_tokens                                         *)
(***************************************************************************)
\* Strings are sequences of characters.  An Optional[str] is [some, val]:
\* NoStr is None, Some(v) the string v.  A finish_reason or an id is a plain
\* string, with "None" for None.
None == "None"
NoStr == [some |-> FALSE, val |-> << >>]
Some(v) == [some |-> TRUE, val |-> v]

\* ChoiceDeltaToolCallFunction; NoFunction is function = None.
NoFunction == [some |-> FALSE, name |-> << >>, arguments |-> << >>]
ToolCallFunctions ==
    {NoFunction,
     [some |-> TRUE, name |-> <<"f">>, arguments |-> << >>],
     [some |-> TRUE, name |-> << >>, arguments |-> <<"{">>],
     [some |-> TRUE, name |-> <<"f">>, arguments |-> <<"{">>]}

\* ChoiceDeltaToolCall: index, id ("" is the falsy id), function; the id "T2"
\* comes with arguments for index 0.
ToolCallChunks ==
    [index : {0, 1}, id : {"", "T1"}, function : ToolCallFunctions]
    \cup {[index |-> 0, id |-> "T2", function |-> f] :
             f \in {x \in ToolCallFunctions : x.arguments # << >>}}

\* delta.tool_calls: None, or a list of one entry, or of an entry of
\* index 1 followed by one of index 0.
NoToolCalls == [some |-> FALSE, val |-> << >>]
DeltaToolCalls ==
    {Some(<<c>>) : c \in ToolCallChunks}
    \cup {Some(<<c, d>>) : c \in {x \in ToolCallChunks : x.index = 1 /\ x.id = "T1"
                                                        /\ x.function.name # << >>
                                                        /\ x.function.arguments # << >>},
                          d \in {x \in ToolCallChunks : x.index = 0 /\ x.id = ""
                                                        /\ x.function.some}}

\* delta.function_call: None, or [name, arguments], each an Optional[str].
NoFunctionCall == [some |-> FALSE, name |-> NoStr, arguments |-> NoStr]
FunctionCalls ==
    {[some |-> TRUE, name |-> NoStr, arguments |-> Some(<<"{">>)],
     [some |-> TRUE, name |-> Some(<<"f">>), arguments |-> NoStr]}

\* A ChatCompletionChunk: has_choice is len(choices) > 0; the other fields
\* are those of choices[0] and its delta.
Chunk(has_choice, finish_reason, content, tool_calls, function_call) ==
    [has_choice |-> has_choice, finish_reason |-> finish_reason, content |-> content,
     tool_calls |-> tool_calls, function_call |-> function_call]

Chunks ==
    {Chunk(FALSE, None, NoStr, NoToolCalls, NoFunctionCall)}
    \cup {Chunk(TRUE, None, c, NoToolCalls, NoFunctionCall) :
              c \in {NoStr, Some(<<"x">>), Some(<< >>)}}
    \cup {Chunk(TRUE, None, NoStr, tcs, NoFunctionCall) : tcs \in DeltaToolCalls}
    \cup {Chunk(TRUE, None, Some(<<"x">>), Some(<<c>>), NoFunctionCall) :
              c \in {x \in ToolCallChunks : x.index = 0 /\ x.id = "T1"
                                            /\ x.function.name # << >>
                                            /\ x.function.arguments # << >>}}
    \cup {Chunk(TRUE, None, NoStr, NoToolCalls, fc) : fc \in FunctionCalls}
    \cup {Chunk(TRUE, reason, content, NoToolCalls, NoFunctionCall) :
              reason \in {"stop", "content_filter"}, content \in {NoStr, Some(<<"x">>)}}
    \cup {Chunk(TRUE, "stop", NoStr, Some(<<c>>), NoFunctionCall) :
              c \in {x \in ToolCallChunks : x.index = 0 /\ x.id = "T1"
                                            /\ x.function.some}}

\* What the generator yields; at is the position in the stream of the chunk
\* it came from, origin and index say which branch and which tool call.
Token(content, at) ==
    [kind |-> "token", content |-> content, name |-> << >>, arguments |-> << >>,
     tool_call_id |-> None, origin |-> "content", index |-> 0, at |-> at]

FunctionFragment(name, arguments, tool_call_id, origin, index, at) ==
    [kind |-> "FunctionFragment", content |-> << >>, name |-> name,
     arguments |-> arguments, tool_call_id |-> tool_call_id, origin |-> origin,
     index |-> index, at |-> at]

\* Lines 285-290.
NewToolCall == [id |-> "", name |-> << >>, arguments |-> << >>, name_sent |-> FALSE]

\* Mutant of finish_reason_set: only the content filter ends the stream.
finish_reason_content_filter(chunk) == chunk.finish_reason = "content_filter"

\* Line 270: if choice.finish_reason
finish_reason_set(chunk) == chunk.finish_reason # None /\ chunk.finish_reason # ""

\* Mutant of is_surfaced: every index is forwarded.
is_surfaced_all(index) == TRUE

\* Line 300: if index == 0
is_surfaced(index) == index = 0

\* Lines 283-299: the per-index state after one tool_call_chunk.
\* Mutant of Accumulate: an id, once set, is kept.
AccumulateFirstId(tool_calls, tc) ==
    LET known == IF tc.index \in DOMAIN tool_calls THEN tool_calls
                 ELSE tool_calls @@ (tc.index :> NewToolCall)
        with_id == IF tc.id # "" /\ known[tc.index].id = ""
                   THEN [known EXCEPT ![tc.index].id = tc.id] ELSE known
        with_name == IF tc.function.some /\ tc.function.name # << >>
                     THEN [with_id EXCEPT ![tc.index].name = @ \o tc.function.name]
                     ELSE with_id
    IN  IF tc.function.some /\ tc.function.arguments # << >>
        THEN [with_name EXCEPT ![tc.index].arguments = @ \o tc.function.arguments]
        ELSE with_name

\* Mutant of Accumulate: new arguments take the place of the old ones.
AccumulateLastArguments(tool_calls, tc) ==
    LET known == IF tc.index \in DOMAIN tool_calls THEN tool_calls
                 ELSE tool_calls @@ (tc.index :> NewToolCall)
        with_id == IF tc.id # "" THEN [known EXCEPT ![tc.index].id = tc.id] ELSE known
        with_name == IF tc.function.some /\ tc.function.name # << >>
                     THEN [with_id EXCEPT ![tc.index].name = @ \o tc.function.name]
                     ELSE with_id
    IN  IF tc.function.some /\ tc.function.arguments # << >>
        THEN [with_name EXCEPT ![tc.index].arguments = tc.function.arguments]
        ELSE with_name

\* Lines 284-298: the per-index state after one entry of delta.tool_calls.
Accumulate(tool_calls, tc) ==
    LET known == IF tc.index \in DOMAIN tool_calls THEN tool_calls
                 ELSE tool_calls @@ (tc.index :> NewToolCall)
        with_id == IF tc.id # "" THEN [known EXCEPT ![tc.index].id = tc.id] ELSE known
        with_name == IF tc.function.some /\ tc.function.name # << >>
                     THEN [with_id EXCEPT ![tc.index].name = @ \o tc.function.name]
                     ELSE with_id
    IN  IF tc.function.some /\ tc.function.arguments # << >>
        THEN [with_name EXCEPT ![tc.index].arguments = @ \o tc.function.arguments]
        ELSE with_name

\* Lines 282-310: the loop over delta.tool_calls from entry i on; the result
\* is the per-index state and the output.
RECURSIVE ProcessToolCalls(_, _, _, _, _)
ProcessToolCalls(tcs, i, tool_calls, out, at) ==
    IF i > Len(tcs) THEN [tool_calls |-> tool_calls, out |-> out]
    ELSE LET tc == tcs[i]
             acc == Accumulate(tool_calls, tc)
             yields == /\ tc.function.some
                       /\ tc.function.arguments # << >>
                       /\ is_surfaced(tc.index)
             send_name == ~acc[tc.index].name_sent /\ acc[tc.index].name # << >>
             name_to_send == IF send_name THEN acc[tc.index].name ELSE << >>
         IN  IF yields
             THEN ProcessToolCalls(tcs, i + 1,
                      IF send_name THEN [acc EXCEPT ![tc.index].name_sent = TRUE] ELSE acc,
                      Append(out, FunctionFragment(name_to_send, tc.function.arguments,
                                                   acc[tc.index].id, "tool_calls",
                                                   tc.index, at)),
                      at)
             ELSE ProcessToolCalls(tcs, i + 1, acc, out, at)

\* Line 263 and the first iteration of the async for.
TokInit ==
    /\ tok_pc = "running"
    /\ tok_tool_calls = << >>
    /\ tok_in = << >>
    /\ tok_out = << >>

\* Lines 266-268: a chunk without choices is skipped.
TokNoChoices ==
    /\ UNCHANGED not_tok_vars
    /\ tok_pc = "running"
    /\ Len(tok_in) < MaxStream
    /\ \E chunk \in Chunks :
          /\ ~chunk.has_choice
          /\ tok_in' = Append(tok_in, chunk)
    /\ UNCHANGED <<tok_pc, tok_tool_calls, tok_out>>

\* Lines 270-276: a finish_reason ends the loop.
TokFinish ==
    /\ UNCHANGED not_tok_vars
    /\ tok_pc = "running"
    /\ Len(tok_in) < MaxStream
    /\ \E chunk \in Chunks :
          /\ chunk.has_choice
          /\ finish_reason_set(chunk)
          /\ tok_in' = Append(tok_in, chunk)
    /\ tok_pc' = "done"
    /\ UNCHANGED <<tok_tool_calls, tok_out>>

\* Lines 278-280: delta.content is yielded.
TokContent ==
    /\ UNCHANGED not_tok_vars
    /\ tok_pc = "running"
    /\ Len(tok_in) < MaxStream
    /\ \E chunk \in Chunks :
          /\ chunk.has_choice
          /\ ~finish_reason_set(chunk)
          /\ chunk.content.some
          /\ tok_in' = Append(tok_in, chunk)
          /\ tok_out' = Append(tok_out, Token(chunk.content.val, Len(tok_in) + 1))
    /\ UNCHANGED <<tok_pc, tok_tool_calls>>

\* Lines 281-310: delta.tool_calls.
TokToolCalls ==
    /\ UNCHANGED not_tok_vars
    /\ tok_pc = "running"
    /\ Len(tok_in) < MaxStream
    /\ \E chunk \in Chunks :
          /\ chunk.has_choice
          /\ ~finish_reason_set(chunk)
          /\ ~chunk.content.some
          /\ chunk.tool_calls.some
          /\ tok_in' = Append(tok_in, chunk)
          /\ LET r == ProcessToolCalls(chunk.tool_calls.val, 1, tok_tool_calls, tok_out,
                                       Len(tok_in) + 1)
             IN  /\ tok_tool_calls' = r.tool_calls
                 /\ tok_out' = r.out
    /\ UNCHANGED tok_pc

\* Lines 311-320: the older delta.function_call.
TokFunctionCall ==
    /\ UNCHANGED not_tok_vars
    /\ tok_pc = "running"
    /\ Len(tok_in) < MaxStream
    /\ \E chunk \in Chunks :
          /\ chunk.has_choice
          /\ ~finish_reason_set(chunk)
          /\ ~chunk.content.some
          /\ ~chunk.tool_calls.some
          /\ chunk.function_call.some
          /\ tok_in' = Append(tok_in, chunk)
          /\ tok_out' = Append(tok_out,
                FunctionFragment(
                    IF chunk.function_call.name.some THEN chunk.function_call.name.val
                    ELSE << >>,
                    IF chunk.function_call.arguments.some
                    THEN chunk.function_call.arguments.val ELSE << >>,
                    None, "function_call", 0, Len(tok_in) + 1))
    /\ UNCHANGED <<tok_pc, tok_tool_calls>>

\* A delta with no content, tool_calls or function_call: nothing is yielded.
TokEmptyDelta ==
    /\ UNCHANGED not_tok_vars
    /\ tok_pc = "running"
    /\ Len(tok_in) < MaxStream
    /\ \E chunk \in Chunks :
          /\ chunk.has_choice
          /\ ~finish_reason_set(chunk)
          /\ ~chunk.content.some
          /\ ~chunk.tool_calls.some
          /\ ~chunk.function_call.some
          /\ tok_in' = Append(tok_in, chunk)
    /\ UNCHANGED <<tok_pc, tok_tool_calls, tok_out>>

\* Line 265: gen is exhausted.
TokExhausted ==
    /\ UNCHANGED not_tok_vars
    /\ tok_pc = "running"
    /\ tok_pc' = "done"
    /\ UNCHANGED <<tok_tool_calls, tok_in, tok_out>>

TokNext ==
    \/ TokNoChoices
    \/ TokFinish
    \/ TokContent
    \/ TokToolCalls
    \/ TokFunctionCall
    \/ TokEmptyDelta
    \/ TokExhausted

(***************************************************************************)
(* TOKEN STREAM: properties                                                *)
(***************************************************************************)
\* C13: every FunctionFragment that comes from an entry of delta.tool_calls
\* comes from an entry of index 0.
C13_OnlyIndexZero ==
    \A k \in 1..Len(tok_out) :
        (tok_out[k].kind = "FunctionFragment" /\ tok_out[k].origin = "tool_calls")
            => tok_out[k].index = 0

\* C13 witness: arguments of a tool call of index 1 were accumulated, and a
\* fragment of index 0 was forwarded from the same chunk.
C13_Witness ==
    /\ 1 \in DOMAIN tok_tool_calls
    /\ tok_tool_calls[1].arguments # << >>
    /\ \E k \in 1..Len(tok_out) :
          /\ tok_out[k].origin = "tool_calls"
          /\ Len(tok_in[tok_out[k].at].tool_calls.val) = 2

\* The chunk at position p of the stream went through the tool_calls branch.
TookToolCalls(p) ==
    /\ tok_in[p].has_choice
    /\ tok_in[p].finish_reason = None
    /\ ~tok_in[p].content.some
    /\ tok_in[p].tool_calls.some

\* The entries of index 0 of the chunk at position p (at most one here).
IndexZeroEntries(p) ==
    IF TookToolCalls(p)
    THEN SelectSeq(tok_in[p].tool_calls.val, LAMBDA tc : tc.index = 0)
    ELSE << >>

\* The name of index 0 as the chunks up to position p spell it.
NameUpTo[p \in 0..Len(tok_in)] ==
    IF p = 0 THEN << >>
    ELSE IF IndexZeroEntries(p) # << >> /\ IndexZeroEntries(p)[1].function.some
         THEN NameUpTo[p - 1] \o IndexZeroEntries(p)[1].function.name
         ELSE NameUpTo[p - 1]

\* The id of index 0 the chunks up to position p gave last ("" when none did).
LatestId(p) ==
    LET with_id == {q \in 1..p : /\ IndexZeroEntries(q) # << >>
                                 /\ IndexZeroEntries(q)[1].id # ""}
    IN  IF with_id = {} THEN ""
        ELSE IndexZeroEntries(CHOOSE q \in with_id : \A r \in with_id : r <= q)[1].id

IndexZeroFragments ==
    {k \in 1..Len(tok_out) : /\ tok_out[k].kind = "FunctionFragment"
                             /\ tok_out[k].origin = "tool_calls"
                             /\ tok_out[k].index = 0}

\* C26: among the FunctionFragments of tool call index 0 at most one has a
\* name; that one has the whole name the chunks have spelled up to its own
\* chunk; and each of them has the id the chunks gave last for index 0.
C26_NameOnceLatestId ==
    /\ Cardinality({k \in IndexZeroFragments : tok_out[k].name # << >>}) <= 1
    /\ \A k \in IndexZeroFragments :
          /\ tok_out[k].name # << >> => tok_out[k].name = NameUpTo[tok_out[k].at]
          /\ tok_out[k].tool_call_id = LatestId(tok_out[k].at)

\* C26 witness: the name came in two pieces before the first arguments, the
\* first fragment has both pieces and the id "T1", a later one has no name
\* and the id "T2".
C26_Witness ==
    \E k, m \in IndexZeroFragments :
        /\ k < m
        /\ tok_out[k].name = <<"f", "f">>
        /\ tok_out[k].tool_call_id = "T1"
        /\ tok_out[m].name = << >>
        /\ tok_out[m].tool_call_id = "T2"

\* The arguments of the fragments of index 0 among the first k outputs, one
\* after the other.
ArgumentsUpTo[k \in 0..Len(tok_out)] ==
    IF k = 0 THEN << >>
    ELSE IF k \in IndexZeroFragments THEN ArgumentsUpTo[k - 1] \o tok_out[k].arguments
         ELSE ArgumentsUpTo[k - 1]

\* The contents of the chunks up to position p that are not skipped and do
\* not end the stream, with their positions.
ContentsUpTo[p \in 0..Len(tok_in)] ==
    IF p = 0 THEN << >>
    ELSE IF /\ tok_in[p].has_choice
            /\ tok_in[p].finish_reason = None
            /\ tok_in[p].content.some
         THEN Append(ContentsUpTo[p - 1], <<tok_in[p].content.val, p>>)
         ELSE ContentsUpTo[p - 1]

\* The tokens among the outputs, with the positions of their chunks.
TokensUpTo[k \in 0..Len(tok_out)] ==
    IF k = 0 THEN << >>
    ELSE IF tok_out[k].kind = "token"
         THEN Append(TokensUpTo[k - 1], <<tok_out[k].content, tok_out[k].at>>)
         ELSE TokensUpTo[k - 1]

\* C34: the arguments of the fragments of index 0, in order, spell the
\* arguments accumulated for index 0; the tokens yielded are the contents
\* of the chunks before the end of the stream, each once and in order; and
\* the outputs follow the order of the chunks they come from.
C34_ArgumentsAndContents ==
    /\ ArgumentsUpTo[Len(tok_out)] =
          IF 0 \in DOMAIN tok_tool_calls THEN tok_tool_calls[0].arguments ELSE << >>
    /\ TokensUpTo[Len(tok_out)] = ContentsUpTo[Len(tok_in)]
    /\ \A j, k \in 1..Len(tok_out) : j < k => tok_out[j].at <= tok_out[k].at

\* C34 witness: two fragments of index 0 with a token between them; the
\* accumulated arguments are those of both fragments.
C34_Witness ==
    /\ Len(tok_out) = 3
    /\ 1 \in IndexZeroFragments
    /\ tok_out[2].kind = "token"
    /\ 3 \in IndexZeroFragments
    /\ tok_tool_calls[0].arguments = <<"{", "{">>

\* C14: a chunk whose first choice carries a finish_reason is the last chunk
\* the generator takes, the generator is done after it, and nothing that was
\* yielded comes from that chunk.
C14_FinishTerminates ==
    \A k \in 1..Len(tok_in) :
        (tok_in[k].has_choice /\ tok_in[k].finish_reason \in {"stop", "content_filter"})
            => /\ k = Len(tok_in)
               /\ tok_pc = "done"
               /\ \A j \in 1..Len(tok_out) : tok_out[j].at < k

\* C14 witness: tokens were yielded, then a chunk with finish_reason "stop"
\* and a content came and ended the stream.
C14_Witness ==
    /\ tok_pc = "done"
    /\ tok_out # << >>
    /\ Len(tok_in) > 1
    /\ tok_in[Len(tok_in)].finish_reason = "stop"
    /\ tok_in[Len(tok_in)].content.some

(***************************************************************************)
(* PARAMETER FORMATTER: a call of apply_parameter_formats                  *)
(***************************************************************************)
\* The payloads, format maps and zones of the calls.
FmtValues(k) ==
    CASE k = "id" -> {StrPlain("7")}
      [] k = "q" -> {StrPlain("a b"), IntVal(5)}
      [] k = "date" -> ParamValues("date")

FmtPayloads == PartialFns(ParamNames, FmtValues)

FmtParamFormats == PartialFns({"q", "date"}, FormatsOf)

\* "Mars/Olympus" is a zone pytz does not know.
FmtTimezones == {NoTimezone, "America/Mexico_City", "Mars/Olympus"}

\* The reference of the caller's payload, and no reference.
PayloadRef == 1
NoRef == 0

\* payload.copy(), line 139: a new dict object.
CopyRef(ref) == ref + 1

FmtInit ==
    /\ fmt_pc = "idle"
    /\ fmt_heap = [r \in {} |-> << >>]
    /\ fmt_args = [payload |-> << >>, param_formats |-> << >>, timezone |-> NoTimezone]
    /\ fmt_result = NoRef

\* apply_parameter_formats with an empty format map, lines 136-137.
FmtReturnsPayload ==
    /\ UNCHANGED not_fmt_vars
    /\ fmt_pc = "idle"
    /\ \E payload \in FmtPayloads, param_formats \in FmtParamFormats,
          timezone \in FmtTimezones :
          /\ DOMAIN param_formats = {}
          /\ fmt_args' = [payload |-> payload, param_formats |-> param_formats,
                          timezone |-> timezone]
          /\ fmt_heap' = [r \in {PayloadRef} |-> payload]
          /\ fmt_result' = PayloadRef
    /\ fmt_pc' = "returned"

\* apply_parameter_formats with a format map, lines 139-149: the copy is
\* made, the loop writes the formatted values into it, the copy is returned.
FmtReturnsCopy ==
    /\ UNCHANGED not_fmt_vars
    /\ fmt_pc = "idle"
    /\ \E payload \in FmtPayloads, param_formats \in FmtParamFormats,
          timezone \in FmtTimezones :
          /\ DOMAIN param_formats # {}
          /\ fmt_args' = [payload |-> payload, param_formats |-> param_formats,
                          timezone |-> timezone]
          /\ LET formatted_payload == CopyRef(PayloadRef)
             IN  /\ fmt_heap' =
                        [r \in {PayloadRef, formatted_payload} |->
                            IF r = formatted_payload
                            THEN apply_parameter_formats(payload, param_formats, timezone)
                            ELSE payload]
                 /\ fmt_result' = formatted_payload
    /\ fmt_pc' = "returned"

\* The caller drops the result; the next call can start.
FmtDone ==
    /\ UNCHANGED not_fmt_vars
    /\ fmt_pc = "returned"
    /\ fmt_pc' = "idle"
    /\ fmt_heap' = [r \in {} |-> << >>]
    /\ fmt_args' = [payload |-> << >>, param_formats |-> << >>, timezone |-> NoTimezone]
    /\ fmt_result' = NoRef

FmtNext ==
    \/ FmtReturnsPayload
    \/ FmtReturnsCopy
    \/ FmtDone

(***************************************************************************)
(* PARAMETER FORMATTER: properties                                         *)
(***************************************************************************)
\* C20: the dict apply_parameter_formats returns has exactly the keys of its
\* input; a key that is not in the format map keeps its value; a key of the
\* format map whose format is neither epoch_s nor epoch_ms, or whose value is
\* not a string, keeps its value; the caller's payload object holds after the
\* call what it held before.
C20_FormatsFrame ==
    fmt_pc = "returned" =>
        LET payload == fmt_args.payload
            param_formats == fmt_args.param_formats
            result == fmt_heap[fmt_result]
        IN  /\ DOMAIN result = DOMAIN payload
            /\ \A k \in DOMAIN payload \ DOMAIN param_formats :
                  result[k] = payload[k]
            /\ \A k \in DOMAIN payload \cap DOMAIN param_formats :
                  (param_formats[k] \notin {"epoch_s", "epoch_ms"}
                      \/ payload[k].kind # "str") =>
                  result[k] = payload[k]
            /\ fmt_heap[PayloadRef] = payload

\* C20 witness: a call returned a copy in which "date" was converted, while
\* "q", listed with a non-string value, "id", not listed, and the caller's
\* payload are as they were.
C20_Witness ==
    /\ fmt_pc = "returned"
    /\ fmt_result # PayloadRef
    /\ DOMAIN fmt_args.payload = ParamNames
    /\ DOMAIN fmt_args.param_formats = {"q", "date"}
    /\ fmt_args.payload["q"].kind = "int"
    /\ fmt_args.payload["date"].kind = "str"
    /\ fmt_args.param_formats["q"] = "epoch_s"
    /\ fmt_args.param_formats["date"] = "epoch_ms"
    /\ fmt_heap[fmt_result]["date"].kind = "int"
    /\ fmt_heap[fmt_result]["q"] = fmt_args.payload["q"]
    /\ fmt_heap[fmt_result]["id"] = fmt_args.payload["id"]
    /\ fmt_heap[PayloadRef] = fmt_args.payload

(***************************************************************************)
(* ALTUR OUTPUT DEVICE: AlturOutputDevice.play (altur_output_device.py)    *)
(***************************************************************************)
\* The mu-law silence byte, and the bytes of the audio: silence and a sample.
MULAW_SILENCE_BYTE == 255

AudioBytes == {MULAW_SILENCE_BYTE, 7}

\* Every byte string of up to n bytes.
RECURSIVE ByteStrings(_)
ByteStrings(n) ==
    IF n = 0 THEN {<< >>}
    ELSE LET shorter == ByteStrings(n - 1)
         IN  shorter \cup {Append(b, x) : b \in {y \in shorter : Len(y) = n - 1},
                                           x \in AudioBytes}

\* base64.b64encode: three bytes become four characters, each given here
\* by its 6-bit value; 64 is the padding character "=".
RECURSIVE b64encode(_)
b64encode(bytes) ==
    IF bytes = << >> THEN << >>
    ELSE IF Len(bytes) = 1
    THEN <<bytes[1] \div 4, (bytes[1] % 4) * 16, 64, 64>>
    ELSE IF Len(bytes) = 2
    THEN <<bytes[1] \div 4, (bytes[1] % 4) * 16 + bytes[2] \div 16,
           (bytes[2] % 16) * 4, 64>>
    ELSE <<bytes[1] \div 4, (bytes[1] % 4) * 16 + bytes[2] \div 16,
           (bytes[2] % 16) * 4 + bytes[3] \div 64, bytes[3] % 64>>
         \o b64encode(SubSeq(bytes, 4, Len(bytes)))

\* base64.b64decode, as the receiver of a frame reads its payload.
RECURSIVE b64decode(_)
b64decode(chars) ==
    IF Len(chars) < 4 THEN << >>
    ELSE LET first == <<chars[1] * 4 + chars[2] \div 16>>
             second == IF chars[3] = 64 THEN << >>
                       ELSE <<(chars[2] % 16) * 16 + chars[3] \div 4>>
             third == IF chars[3] = 64 \/ chars[4] = 64 THEN << >>
                      ELSE <<(chars[3] % 4) * 64 + chars[4]>>
         IN  first \o second \o third \o b64decode(SubSeq(chars, 5, Len(chars)))

\* n copies of the silence byte.
Silence(n) == [k \in 1..n |-> MULAW_SILENCE_BYTE]

\* Mutant of pad_subchunk: a short last subchunk is sent as it is.
pad_subchunk_not(subchunk) == subchunk

\* Lines 45-46: a short subchunk is filled up with silence.
pad_subchunk(subchunk) ==
    IF Len(subchunk) < ALTUR_CHUNK_SIZE
    THEN subchunk \o Silence(ALTUR_CHUNK_SIZE - Len(subchunk))
    ELSE subchunk

\* chunk[i : i + ALTUR_CHUNK_SIZE], line 43 (i counts from 0).
Slice(chunk, i) ==
    SubSeq(chunk, i + 1, IF i + ALTUR_CHUNK_SIZE < Len(chunk)
                         THEN i + ALTUR_CHUNK_SIZE ELSE Len(chunk))

\* json.dumps({"call_id": ..., "payload": b64encode(subchunk).decode()})
Frame(call_id, subchunk) == [call_id |-> call_id, payload |-> b64encode(subchunk)]

AltInit ==
    /\ alt_pc = "idle"
    /\ alt_chunk = << >>
    /\ alt_i = 0
    /\ alt_ws = "CONNECTED"
    /\ alt_sent = << >>

\* play(chunk, call_id) is called (output_to_speaker is off).
AltPlay ==
    /\ UNCHANGED not_alt_vars
    /\ alt_pc = "idle"
    /\ \E chunk \in ByteStrings(MaxPlayBytes) : alt_chunk' = chunk
    /\ alt_i' = 0
    /\ alt_sent' = << >>
    /\ alt_pc' = "loop"
    /\ UNCHANGED alt_ws

\* Lines 42-56, one iteration with the socket connected: the frame is sent.
AltSendFrame ==
    /\ UNCHANGED not_alt_vars
    /\ alt_pc = "loop"
    /\ alt_i < Len(alt_chunk)
    /\ alt_ws # "DISCONNECTED"
    /\ alt_sent' = Append(alt_sent, Frame("call", pad_subchunk(Slice(alt_chunk, alt_i))))
    /\ alt_i' = alt_i + ALTUR_CHUNK_SIZE
    /\ UNCHANGED <<alt_pc, alt_chunk, alt_ws>>

\* Lines 42-48, one iteration with the socket disconnected: nothing is sent.
AltSkipFrame ==
    /\ UNCHANGED not_alt_vars
    /\ alt_pc = "loop"
    /\ alt_i < Len(alt_chunk)
    /\ alt_ws = "DISCONNECTED"
    /\ alt_i' = alt_i + ALTUR_CHUNK_SIZE
    /\ UNCHANGED <<alt_pc, alt_chunk, alt_ws, alt_sent>>

\* The range is used up: play returns.
AltReturns ==
    /\ UNCHANGED not_alt_vars
    /\ alt_pc = "loop"
    /\ ~(alt_i < Len(alt_chunk))
    /\ alt_pc' = "returned"
    /\ UNCHANGED <<alt_chunk, alt_i, alt_ws, alt_sent>>

\* The caller goes on to the next chunk.
AltNextChunk ==
    /\ UNCHANGED not_alt_vars
    /\ alt_pc = "returned"
    /\ alt_pc' = "idle"
    /\ alt_chunk' = << >>
    /\ alt_i' = 0
    /\ alt_sent' = << >>
    /\ UNCHANGED alt_ws

\* The peer closes the socket.
AltDisconnect ==
    /\ UNCHANGED not_alt_vars
    /\ alt_ws = "CONNECTED"
    /\ alt_ws' = "DISCONNECTED"
    /\ UNCHANGED <<alt_pc, alt_chunk, alt_i, alt_sent>>

AltNext ==
    \/ AltPlay
    \/ AltSendFrame
    \/ AltSkipFrame
    \/ AltReturns
    \/ AltNextChunk
    \/ AltDisconnect

(***************************************************************************)
(* ALTUR OUTPUT DEVICE: properties                                         *)
(***************************************************************************)
\* ceil(n / ALTUR_CHUNK_SIZE)
CeilFrames(n) == (n + ALTUR_CHUNK_SIZE - 1) \div ALTUR_CHUNK_SIZE

\* The decoded payloads of the frames sent, one after the other.
RECURSIVE Payloads_concat(_)
Payloads_concat(frames) ==
    IF frames = << >> THEN << >>
    ELSE b64decode(frames[1].payload) \o Payloads_concat(Tail(frames))

\* C29: a play of n > 0 bytes that has returned on a socket still connected
\* has sent ceil(n / ALTUR_CHUNK_SIZE) frames; every payload decodes to
\* ALTUR_CHUNK_SIZE bytes; the payloads in order are the chunk followed by
\* silence bytes only; every frame but the last is a piece of the chunk
\* without padding.
C29_FramesOfChunk ==
    (alt_pc = "returned" /\ alt_ws = "CONNECTED" /\ Len(alt_chunk) > 0) =>
        LET n == Len(alt_chunk)
            all == Payloads_concat(alt_sent)
        IN  /\ Len(alt_sent) = CeilFrames(n)
            /\ \A k \in 1..Len(alt_sent) :
                  /\ Len(b64decode(alt_sent[k].payload)) = ALTUR_CHUNK_SIZE
                  /\ alt_sent[k].call_id = "call"
            /\ Len(all) >= n
            /\ SubSeq(all, 1, n) = alt_chunk
            /\ \A k \in (n + 1)..Len(all) : all[k] = MULAW_SILENCE_BYTE
            /\ \A k \in 1..(Len(alt_sent) - 1) :
                  b64decode(alt_sent[k].payload) =
                      SubSeq(alt_chunk, (k - 1) * ALTUR_CHUNK_SIZE + 1, k * ALTUR_CHUNK_SIZE)

\* C29 witness: a chunk of three bytes that ends with a sample went out as
\* two frames, the second padded with one silence byte.
C29_Witness ==
    /\ alt_pc = "returned"
    /\ alt_ws = "CONNECTED"
    /\ Len(alt_chunk) = ALTUR_CHUNK_SIZE + 1
    /\ alt_chunk[Len(alt_chunk)] = 7
    /\ Len(alt_sent) = 2
    /\ b64decode(alt_sent[2].payload) = <<7>> \o Silence(ALTUR_CHUNK_SIZE - 1)

(***************************************************************************)
(* TEMPORAL ENRICHER: _get_temporal_direction and the re-parse of          *)
(* inject_parsed_dates (date_utils.py).  A text is a sequence of           *)
(* characters; the tables hold some of the entries of the source's tables  *)
(* for "es" and "en".                                                      *)
(***************************************************************************)
PAST_MODIFIERS_AFTER == [es |-> {<<"p", "a", "s", "a", "d", "o">>}, en |-> {<<"a", "g", "o">>}]

PAST_MODIFIERS_BEFORE == [es |-> {<<"y", "a">>}, en |-> {<<"l", "a", "s", "t">>, <<"a">>}]

FUTURE_MODIFIERS_AFTER == [es |-> {<<"s", "i", "g", "u", "i", "e", "n", "t", "e">>}, en |-> {<<"n", "e", "x", "t">>}]

FUTURE_MODIFIERS_BEFORE == [es |-> {<<"e", "s", "t", "a">>}, en |-> {<<"n", "e", "x", "t">>}]

PAST_TENSE_VERBS == [es |-> {<<"f", "u", "i">>}, en |-> {<<"w", "e", "n", "t">>}]

FUTURE_TENSE_VERBS == [es |-> {<<"v", "o", "y">>, <<"v", "o", "y", " ", "a">>}, en |-> {<<"w", "i", "l", "l">>}]

\* The sizes of the context windows, in characters.
ModifierWindow == 20
SentenceWindow == 50

\* The words a text is made of: those before the date word, the date words
\* search_dates finds, and those after.
WordsBefore == {<<"l", "a">>, <<"e", "s", "t", "a">>, <<"y", "a">>, <<"l", "a", "s", "t">>, <<"f", "u", "i">>, <<"v", "o", "y">>, <<"a">>}
DateWords == {<<"l", "u", "n", "e", "s">>, <<"s", "e", "m", "a", "n", "a">>}
WordsAfter == {<<"p", "a", "s", "a", "d", "o">>, <<"n", "e", "x", "t">>, <<"f", "u", "i">>}

\* The argument languages; None and the empty list, which the code treats
\* alike, are the empty sequence.
NoLanguages == << >>
DateLanguages == {NoLanguages, <<"es">>, <<"es", "en">>}

\* " ".join(words)
RECURSIVE JoinWords(_)
JoinWords(words) ==
    IF words = << >> THEN << >>
    ELSE IF Len(words) = 1 THEN words[1]
    ELSE words[1] \o <<" ">> \o JoinWords(Tail(words))

\* Every sequence of up to n words of a set.
RECURSIVE WordLists(_, _)
WordLists(words, n) ==
    IF n = 0 THEN {<< >>}
    ELSE LET shorter == WordLists(words, n - 1)
         IN  shorter \cup {Append(l, w) : l \in {x \in shorter : Len(x) = n - 1},
                                          w \in words}

\* s[a:b] of Python, for 0 <= a.
PySlice(s, a, b) == SubSeq(s, a + 1, IF b < Len(s) THEN b ELSE Len(s))

\* s.strip()
RECURSIVE strip(_)
strip(s) ==
    IF s = << >> THEN s
    ELSE IF Head(s) = " " THEN strip(Tail(s))
    ELSE IF s[Len(s)] = " " THEN strip(SubSeq(s, 1, Len(s) - 1))
    ELSE s

startswith(s, prefix) ==
    Len(prefix) <= Len(s) /\ SubSeq(s, 1, Len(prefix)) = prefix

endswith(s, suffix) ==
    Len(suffix) <= Len(s) /\ SubSeq(s, Len(s) - Len(suffix) + 1, Len(s)) = suffix

\* sub in s
contains(s, sub) ==
    \E k \in 0..(Len(s) - Len(sub)) : SubSeq(s, k + 1, k + Len(sub)) = sub

\* s.find(sub): the first position of sub in s, -1 when there is none.
find(s, sub) ==
    IF contains(s, sub)
    THEN Min({k \in 0..(Len(s) - Len(sub)) : SubSeq(s, k + 1, k + Len(sub)) = sub})
    ELSE -1

\* set(re.findall(r'\b\w+\b', s)): the maximal runs of letters.
findall_words(s) ==
    {SubSeq(s, a, b) : <<a, b>> \in
        {<<a, b>> \in (1..Len(s)) \X (1..Len(s)) :
            /\ a <= b
            /\ \A k \in a..b : s[k] # " "
            /\ (a = 1 \/ s[a - 1] = " ")
            /\ (b = Len(s) \/ s[b + 1] = " ")}}

\* langs = languages or ["es", "en"], line 651
langs_of(languages) == IF languages = NoLanguages THEN <<"es", "en">> ELSE languages

\* Lines 655-663 (and 666-674): some modifier of a language of langs starts
\* context_after or ends context_before.
modifier_found(langs, after, before, context_after, context_before) ==
    \E i \in 1..Len(langs) :
        \/ \E modifier \in after[langs[i]] : startswith(context_after, modifier)
        \/ \E modifier \in before[langs[i]] : endswith(context_before, modifier)

\* Lines 689-712: a verb of a table is a word of the window, or, when it
\* has a blank in it, a part of the window.
verb_found(langs, verbs, sentence_context) ==
    \E i \in 1..Len(langs) : \E verb \in verbs[langs[i]] :
        IF contains(verb, <<" ">>) THEN contains(sentence_context, verb)
        ELSE verb \in findall_words(sentence_context)

\* _get_temporal_direction, lines 626-722 (the texts are in lower case, so
\* text.lower() is the text).
get_temporal_direction(text, match_pos, match_text, languages) ==
    LET text_lower == text
        match_end == match_pos + Len(match_text)
        context_before ==
            strip(PySlice(text_lower, Max2(0, match_pos - ModifierWindow), match_pos))
        context_after == strip(PySlice(text_lower, match_end, match_end + ModifierWindow))
        langs == langs_of(languages)
        sentence_context ==
            PySlice(text_lower, Max2(0, match_pos - SentenceWindow),
                    match_end + SentenceWindow)
        past_verb_found == verb_found(langs, PAST_TENSE_VERBS, sentence_context)
        future_verb_found == verb_found(langs, FUTURE_TENSE_VERBS, sentence_context)
    IN  IF modifier_found(langs, PAST_MODIFIERS_AFTER, PAST_MODIFIERS_BEFORE,
                          context_after, context_before)
        THEN "past"
        ELSE IF modifier_found(langs, FUTURE_MODIFIERS_AFTER, FUTURE_MODIFIERS_BEFORE,
                               context_after, context_before)
        THEN "future"
        ELSE IF past_verb_found /\ ~future_verb_found THEN "past"
        ELSE IF future_verb_found /\ ~past_verb_found THEN "future"
        ELSE None

DateInit ==
    /\ date_pc = "idle"
    /\ date_text = << >>
    /\ date_matched = << >>
    /\ date_languages = NoLanguages
    /\ date_direction = None
    /\ date_prefer = None

\* inject_parsed_dates(text, languages) is called and search_dates returns a
\* date word of the text that passes _is_valid_date_match.
DateSearch ==
    /\ UNCHANGED not_date_vars
    /\ date_pc = "idle"
    /\ \E before \in WordLists(WordsBefore, MaxWordsBefore),
          date \in DateWords,
          after \in WordLists(WordsAfter, MaxWordsAfter),
          languages \in DateLanguages :
          /\ date_text' = JoinWords(before \o <<date>> \o after)
          /\ date_matched' = date
          /\ date_languages' = languages
    /\ date_direction' = None
    /\ date_prefer' = None
    /\ date_pc' = "matched"

\* The position of the match is looked up and its direction computed.
DateDirection ==
    /\ UNCHANGED not_date_vars
    /\ date_pc = "matched"
    /\ LET pos == find(date_text, date_matched)
       IN  date_direction' =
               get_temporal_direction(date_text, pos, date_matched, date_languages)
    /\ date_pc' = "direction"
    /\ UNCHANGED <<date_text, date_matched, date_languages, date_prefer>>

\* The match is parsed again: with the direction, or with "future" when
\* there is none.
DateReparse ==
    /\ UNCHANGED not_date_vars
    /\ date_pc = "direction"
    /\ date_prefer' = IF date_direction # None THEN date_direction ELSE "future"
    /\ date_pc' = "parsed"
    /\ UNCHANGED <<date_text, date_matched, date_languages, date_direction>>

\* The next text.
DateReturn ==
    /\ UNCHANGED not_date_vars
    /\ date_pc = "parsed"
    /\ date_pc' = "idle"
    /\ date_text' = << >>
    /\ date_matched' = << >>
    /\ date_languages' = NoLanguages
    /\ date_direction' = None
    /\ date_prefer' = None

DateNext ==
    \/ DateSearch
    \/ DateDirection
    \/ DateReparse
    \/ DateReturn

(***************************************************************************)
(* TEMPORAL ENRICHER: properties                                           *)
(***************************************************************************)
\* The words of the text before the date word and after it.
TextBefore == strip(PySlice(date_text, 0, find(date_text, date_matched)))
TextAfter ==
    strip(PySlice(date_text, find(date_text, date_matched) + Len(date_matched),
                  Len(date_text)))

\* A modifier stands directly before the date word: the words before it end
\* with the words of the modifier.
ModifierBefore(modifier) ==
    /\ endswith(TextBefore, modifier)
    /\ (Len(TextBefore) = Len(modifier)
          \/ TextBefore[Len(TextBefore) - Len(modifier)] = " ")

\* A modifier stands directly after the date word.
ModifierAfter(modifier) ==
    /\ startswith(TextAfter, modifier)
    /\ (Len(TextAfter) = Len(modifier) \/ TextAfter[Len(modifier) + 1] = " ")

ModifierAdjacent(after, before) ==
    \E i \in 1..Len(langs_of(date_languages)) :
        \/ \E modifier \in after[langs_of(date_languages)[i]] : ModifierAfter(modifier)
        \/ \E modifier \in before[langs_of(date_languages)[i]] : ModifierBefore(modifier)

PastModifierAdjacent == ModifierAdjacent(PAST_MODIFIERS_AFTER, PAST_MODIFIERS_BEFORE)
FutureModifierAdjacent == ModifierAdjacent(FUTURE_MODIFIERS_AFTER, FUTURE_MODIFIERS_BEFORE)

\* A verb of a table occurs in the text, as a word or as words in a row.
VerbOccurs(verbs) ==
    \E i \in 1..Len(langs_of(date_languages)) :
        \E verb \in verbs[langs_of(date_languages)[i]] :
            \E k \in 0..(Len(date_text) - Len(verb)) :
                /\ SubSeq(date_text, k + 1, k + Len(verb)) = verb
                /\ (k = 0 \/ date_text[k] = " ")
                /\ (k + Len(verb) = Len(date_text) \/ date_text[k + Len(verb) + 1] = " ")

\* C21: the match is parsed again with "past" when a past modifier is
\* directly adjacent, else with "future" when a future modifier is, else
\* with the polarity of the verbs when only one polarity occurs, else with
\* "future"; without a modifier and without a past verb it is "future".
C21_Direction ==
    date_pc = "parsed" =>
        /\ date_prefer =
              IF PastModifierAdjacent THEN "past"
              ELSE IF FutureModifierAdjacent THEN "future"
              ELSE IF VerbOccurs(PAST_TENSE_VERBS) /\ ~VerbOccurs(FUTURE_TENSE_VERBS)
              THEN "past"
              ELSE "future"
        /\ (/\ ~PastModifierAdjacent
            /\ ~FutureModifierAdjacent
            /\ ~VerbOccurs(PAST_TENSE_VERBS)) => date_prefer = "future"

(***************************************************************************)
(* TEMPORAL ENRICHER: the injection of inject_parsed_dates (date_utils.py) *)
(***************************************************************************)
MaxInjWords == 3

MIN_DATE_MATCH_LENGTH == 4

\* The slice after the match in which a trailing modifier is looked for.
TrailingWindow == 15

VALID_SHORT_PATTERNS == [es |-> {<<"h", "o", "y">>, <<"l", "u", "n", "e", "s">>}, en |-> {<<"n", "o", "w">>}]

\* The words of a text, and those of them search_dates finds as dates.
InjWords == {<<"e", "l">>, <<"h", "o", "y">>, <<"l", "u", "n", "e", "s">>, <<"p", "a", "s", "a", "d", "o">>}
InjDateWords == {<<"h", "o", "y">>, <<"l", "u", "n", "e", "s">>}

\* The characters a date is formatted to.
DateChars == {"0", "1", "2"}

\* search_dates(text): one result for each occurrence of a date word, in
\* the order of the text.
RECURSIVE search_dates(_)
search_dates(words) ==
    IF words = << >> THEN << >>
    ELSE (IF Head(words) \in InjDateWords
          THEN <<[matched_text |-> Head(words), date |-> "0"]>> ELSE << >>)
         \o search_dates(Tail(words))

\* _is_valid_date_match, lines 595-623; a text that matches the pattern of
\* line 619 contains the match, so lines 620-622 reject a match the text
\* does not contain.
is_valid_date_match(matched_text, text, languages) ==
    LET matched_lower == strip(matched_text)
    IN  \/ \E i \in 1..Len(languages) :
              /\ languages[i] \in DOMAIN VALID_SHORT_PATTERNS
              /\ matched_lower \in VALID_SHORT_PATTERNS[languages[i]]
        \/ /\ Len(matched_lower) >= MIN_DATE_MATCH_LENGTH
           /\ contains(text, matched_text)

\* _parse_with_direction(...).strftime("%Y-%m-%d"): today for "hoy", the
\* last or the next of the weekday.
parse_with_direction(match_text, direction) ==
    IF match_text = <<"h", "o", "y">> THEN "0"
    ELSE IF direction = "past" THEN "1"
    ELSE "2"

\* The first loop of inject_parsed_dates, lines 786-815, over results[k..].
RECURSIVE filter_results(_, _, _, _)
filter_results(results, k, text, languages) ==
    IF k > Len(results) THEN << >>
    ELSE LET matched_text == results[k].matched_text
             pos == find(text, matched_text)
             direction == get_temporal_direction(text, pos, matched_text, languages)
             parsed_date ==
                 parse_with_direction(matched_text,
                                      IF direction # None THEN direction ELSE "future")
             rest == filter_results(results, k + 1, text, languages)
         IN  IF ~is_valid_date_match(matched_text, text, languages) THEN rest
             ELSE IF pos = -1 THEN rest
             ELSE <<[matched_text |-> matched_text, date |-> parsed_date, pos |-> pos]>>
                  \o rest

\* valid_results.sort(key=lambda x: x[2], reverse=True), line 821: by
\* position from the last to the first, equal positions in their order.
sort_reverse(results) ==
    LET n == Len(results)
        rank(i) == 1 + Cardinality({j \in 1..n :
                          \/ results[j].pos > results[i].pos
                          \/ results[j].pos = results[i].pos /\ j < i})
    IN  [r \in 1..n |-> results[CHOOSE i \in 1..n : rank(i) = r]]

\* len(re.match(r'\s*', s).group())
RECURSIVE leading_spaces(_)
leading_spaces(s) ==
    IF s = << >> \/ Head(s) # " " THEN 0 ELSE 1 + leading_spaces(Tail(s))

\* Lines 831-848: the length of the longest modifier that starts text_after,
\* with the blanks before it; 0 when there is none.
modifier_length(text, match_end, languages) ==
    LET text_after == strip(PySlice(text, match_end, match_end + TrailingWindow))
        langs == langs_of(languages)
        space_len == leading_spaces(PySlice(text, match_end, Len(text)))
        lengths ==
            {space_len + Len(modifier) : modifier \in
                {m \in UNION {PAST_MODIFIERS_AFTER[langs[i]] \cup
                              FUTURE_MODIFIERS_AFTER[langs[i]] : i \in 1..Len(langs)} :
                    startswith(text_after, m)}}
    IN  IF lengths = {} THEN 0 ELSE CHOOSE l \in lengths : \A x \in lengths : x <= l

\* One round of the second loop, lines 824-859.
inject(enriched_text, text, result, languages) ==
    LET match_end == result.pos + Len(result.matched_text)
        full_match_end == match_end + modifier_length(text, match_end, languages)
        original_expression == PySlice(text, result.pos, full_match_end)
        injection == original_expression \o <<" ", "(", result.date, ")">>
    IN  PySlice(enriched_text, 0, result.pos) \o injection
        \o PySlice(enriched_text, full_match_end, Len(enriched_text))

InjInit ==
    /\ inj_pc = "idle"
    /\ inj_words = << >>
    /\ inj_text = << >>
    /\ inj_languages = NoLanguages
    /\ inj_results = << >>
    /\ inj_valid = << >>
    /\ inj_k = 0
    /\ inj_enriched = << >>

\* inject_parsed_dates(text, languages) is called and search_dates has
\* answered; without results the text is returned (lines 779-780).
InjSearch ==
    /\ UNCHANGED not_inj_vars
    /\ inj_pc = "idle"
    /\ \E words \in WordLists(InjWords, MaxInjWords), languages \in DateLanguages :
          /\ inj_words' = words
          /\ inj_text' = JoinWords(words)
          /\ inj_languages' = languages
          /\ inj_results' = search_dates(words)
          /\ inj_enriched' = JoinWords(words)
          /\ inj_pc' = IF search_dates(words) = << >> THEN "returned" ELSE "found"
    /\ inj_valid' = << >>
    /\ inj_k' = 0

\* The results are filtered and sorted; without a valid one the text is
\* returned (lines 817-818).
InjFilter ==
    /\ UNCHANGED not_inj_vars
    /\ inj_pc = "found"
    /\ inj_valid' = sort_reverse(filter_results(inj_results, 1, inj_text, inj_languages))
    /\ inj_pc' = IF inj_valid' = << >> THEN "returned" ELSE "inject"
    /\ UNCHANGED <<inj_words, inj_text, inj_languages, inj_results, inj_k, inj_enriched>>

\* One valid result is injected.
InjReplace ==
    /\ UNCHANGED not_inj_vars
    /\ inj_pc = "inject"
    /\ inj_k' = inj_k + 1
    /\ inj_enriched' = inject(inj_enriched, inj_text, inj_valid[inj_k + 1], inj_languages)
    /\ inj_pc' = IF inj_k + 1 = Len(inj_valid) THEN "returned" ELSE "inject"
    /\ UNCHANGED <<inj_words, inj_text, inj_languages, inj_results, inj_valid>>

\* The next call.
InjReturn ==
    /\ UNCHANGED not_inj_vars
    /\ inj_pc = "returned"
    /\ inj_pc' = "idle"
    /\ inj_words' = << >>
    /\ inj_text' = << >>
    /\ inj_languages' = NoLanguages
    /\ inj_results' = << >>
    /\ inj_valid' = << >>
    /\ inj_k' = 0
    /\ inj_enriched' = << >>

InjNext ==
    \/ InjSearch
    \/ InjFilter
    \/ InjReplace
    \/ InjReturn

(***************************************************************************)
(* TEMPORAL ENRICHER: properties of the injection                          *)
(***************************************************************************)
\* The text with every date written as "#".
EraseDates(s) == [k \in 1..Len(s) |-> IF s[k] \in DateChars THEN "#" ELSE s[k]]

\* The modifiers that may trail a match.
TrailingModifiers(languages) ==
    LET langs == langs_of(languages)
    IN  UNION {PAST_MODIFIERS_AFTER[langs[i]] \cup FUTURE_MODIFIERS_AFTER[langs[i]] :
                  i \in 1..Len(langs)}

\* Word k of the text is an occurrence of a valid temporal expression.
ValidOccurrence(words, k, languages) ==
    /\ words[k] \in InjDateWords
    /\ is_valid_date_match(words[k], JoinWords(words), languages)

\* The annotation of an occurrence stands after word k: word k is the
\* occurrence and no modifier follows it, or word k is the modifier that
\* follows the occurrence.
AnnotationAfter(words, k, languages) ==
    \/ /\ ValidOccurrence(words, k, languages)
       /\ ~(k < Len(words) /\ words[k + 1] \in TrailingModifiers(languages))
    \/ /\ k > 1
       /\ ValidOccurrence(words, k - 1, languages)
       /\ words[k] \in TrailingModifiers(languages)

\* The text with one annotation for each valid occurrence.
ExpectedText(words, languages) ==
    JoinWords([k \in 1..Len(words) |->
                  IF AnnotationAfter(words, k, languages)
                  THEN words[k] \o <<" ", "(", "#", ")">> ELSE words[k]])

\* C31 (as claimed): the returned text has one annotation right after each
\* occurrence of a valid temporal expression (after its trailing modifier
\* when one follows), also when an expression occurs more than once.
C31_AnnotationAfterEachOccurrence ==
    inj_pc = "returned" => EraseDates(inj_enriched) = ExpectedText(inj_words, inj_languages)

\* The same for the texts in which no expression occurs twice.
AnnotatedWithoutRepeats ==
    (inj_pc = "returned" /\ \A a, b \in 1..Len(inj_words) :
         (a # b /\ inj_words[a] \in InjDateWords) => inj_words[a] # inj_words[b])
        => EraseDates(inj_enriched) = ExpectedText(inj_words, inj_languages)

(***************************************************************************)
(* MEDIA SOCKET: AlturPhoneConversation.attach_ws_and_start                *)
(* (altur_phone_conversation.py), from the receive loop on                 *)
(***************************************************************************)
MaxReceived == 2

\* The codes of a websocket.disconnect message; 1000 is the normal one.
DisconnectCodes == {1000, 1001, 1006}

\* The payloads of a frame: the base64 text of a chunk, and one whose
\* padding is cut off.
FramePayloads ==
    {b64encode(bytes) : bytes \in ByteStrings(1)} \cup {<<1, 48, 64>>}

\* message["text"] of a websocket.receive message: text that is not JSON,
\* an object without "payload", or an object with one.
FrameTexts ==
    {[json |-> "malformed", has_payload |-> FALSE, payload |-> << >>],
     [json |-> "object", has_payload |-> FALSE, payload |-> << >>]}
    \cup [json : {"object"}, has_payload : {TRUE}, payload : FramePayloads]

\* Lines 116-117 raise: json.loads on text that is not JSON, the lookup of
\* a missing "payload", base64.b64decode on wrong padding.
decode_raises(text) ==
    \/ text.json = "malformed"
    \/ ~text.has_payload
    \/ Len(text.payload) % 4 # 0

PhoneInit ==
    /\ phone_pc = "loop"
    /\ phone_active = TRUE
    /\ phone_disconnected = FALSE
    /\ phone_peer_gone = FALSE
    /\ phone_terminated = 0
    /\ phone_closed = 0
    /\ phone_audio = << >>
    /\ phone_errors = << >>

\* while self.is_active(), line 110
PhoneLoop ==
    /\ UNCHANGED not_phone_vars
    /\ phone_pc = "loop"
    /\ phone_pc' = IF phone_active THEN "receive" ELSE "terminate"
    /\ UNCHANGED <<phone_active, phone_disconnected, phone_peer_gone, phone_terminated,
                   phone_closed, phone_audio, phone_errors>>

\* The conversation ends by itself while the loop runs.
PhoneBecomesInactive ==
    /\ UNCHANGED not_phone_vars
    /\ phone_pc \in {"loop", "receive"}
    /\ phone_active
    /\ phone_active' = FALSE
    /\ UNCHANGED <<phone_pc, phone_disconnected, phone_peer_gone, phone_terminated,
                   phone_closed, phone_audio, phone_errors>>

\* The peer disconnects: lines 113-114 and 121-128.
PhoneDisconnect ==
    /\ UNCHANGED not_phone_vars
    /\ phone_pc = "receive"
    /\ \E code \in DisconnectCodes :
          phone_errors' = IF code # 1000 THEN Append(phone_errors, code)
                          ELSE phone_errors
    /\ phone_peer_gone' = TRUE
    /\ phone_disconnected' = TRUE
    /\ phone_pc' = "terminate"
    /\ UNCHANGED <<phone_active, phone_terminated, phone_closed, phone_audio>>

\* A frame arrives and is decoded, lines 115-118.
PhoneFrame ==
    /\ UNCHANGED not_phone_vars
    /\ phone_pc = "receive"
    /\ Len(phone_audio) < MaxReceived
    /\ \E text \in FrameTexts :
          /\ ~decode_raises(text)
          /\ phone_audio' = Append(phone_audio, b64decode(text.payload))
    /\ phone_pc' = "loop"
    /\ UNCHANGED <<phone_active, phone_disconnected, phone_peer_gone, phone_terminated,
                   phone_closed, phone_errors>>

\* A frame arrives that cannot be decoded: the exception of line 116 or 117
\* is no WebSocketDisconnect and leaves attach_ws_and_start.
PhoneFrameRaises ==
    /\ UNCHANGED not_phone_vars
    /\ phone_pc = "receive"
    /\ \E text \in FrameTexts : decode_raises(text)
    /\ phone_pc' = "raised"
    /\ UNCHANGED <<phone_active, phone_disconnected, phone_peer_gone, phone_terminated,
                   phone_closed, phone_audio, phone_errors>>

\* A message of another type is logged, lines 119-120.
PhoneOtherMessage ==
    /\ UNCHANGED not_phone_vars
    /\ phone_pc = "receive"
    /\ phone_pc' = "loop"
    /\ UNCHANGED <<phone_active, phone_disconnected, phone_peer_gone, phone_terminated,
                   phone_closed, phone_audio, phone_errors>>

\* await self.terminate(), line 129
PhoneTerminate ==
    /\ UNCHANGED not_phone_vars
    /\ phone_pc = "terminate"
    /\ phone_terminated' = phone_terminated + 1
    /\ phone_active' = FALSE
    /\ phone_pc' = IF phone_disconnected THEN "returned" ELSE "close"
    /\ UNCHANGED <<phone_disconnected, phone_peer_gone, phone_closed, phone_audio,
                   phone_errors>>

\* await ws.close(), lines 130-131
PhoneClose ==
    /\ UNCHANGED not_phone_vars
    /\ phone_pc = "close"
    /\ phone_closed' = phone_closed + 1
    /\ phone_pc' = "returned"
    /\ UNCHANGED <<phone_active, phone_disconnected, phone_peer_gone, phone_terminated,
                   phone_audio, phone_errors>>

PhoneNext ==
    \/ PhoneLoop
    \/ PhoneBecomesInactive
    \/ PhoneDisconnect
    \/ PhoneFrame
    \/ PhoneFrameRaises
    \/ PhoneOtherMessage
    \/ PhoneTerminate
    \/ PhoneClose

(***************************************************************************)
(* MEDIA SOCKET: properties                                                *)
(***************************************************************************)
\* C33 (as claimed): when the receive loop has been left, by a disconnect
\* with any code, by the conversation becoming inactive or by a frame that
\* cannot be decoded, terminate() has been called exactly once, and
\* ws.close() has been called exactly when the peer has not disconnected.
C33_TerminateOnceOnEveryExit ==
    phone_pc \in {"returned", "raised"} =>
        /\ phone_terminated = 1
        /\ phone_closed = IF phone_peer_gone THEN 0 ELSE 1

(***************************************************************************)
(* Specifications                                                          *)
(***************************************************************************)
Init == ProjInit /\ DevInit /\ ActInit /\ CacheInit /\ TokInit /\ DrainInit /\ FmtInit
        /\ AltInit /\ DateInit /\ PhoneInit /\ InjInit

SpecProj == Init /\ [][ProjNext]_vars

SpecDev == Init /\ [][DevNext]_vars

SpecAct == Init /\ [][ActNext]_vars

SpecCache == Init /\ [][CacheNext]_vars

SpecCacheOps == Init /\ [][CacheOpsNext]_vars

SpecSetClear == Init /\ [][SetClearNext]_vars

SpecWriters == Init /\ [][WritersNext]_vars

SpecTok == Init /\ [][TokNext]_vars

SpecDrain == Init /\ [][DevDrainNext]_vars /\ DrainFairness

SpecTrunc == Init /\ [][TruncNext]_vars /\ TruncFairness

SpecLook == Init /\ [][LookNext]_vars

SpecAlt == Init /\ [][AltNext]_vars

SpecDate == Init /\ [][DateNext]_vars

SpecFmt == Init /\ [][FmtNext]_vars

SpecPhone == Init /\ [][PhoneNext]_vars

SpecInj == Init /\ [][InjNext]_vars

====
